---------------------------- MODULE Spec2Model ----------------------------
(***************************************************************************)
(* Model of the streaming response engine of the LLM gateway:              *)
(*   - KimiTransformer tool-call id repair (kimi.transformer.ts)           *)
(*   - KimiTransformer streaming tool-call assembly                        *)
(*   - AnthropicTransformer.convertOpenAIStreamToAnthropic                 *)
(* Strings are sequences of one-character tokens, so that concatenation,   *)
(* regular-expression matching and line splitting are computed the way the *)
(* code computes them.  The token "F" stands for the literal id prefix     *)
(* "functions" (options.idPrefix).                                         *)
(***************************************************************************)
EXTENDS Integers, Sequences, FiniteSets, TLC

VARIABLES
    options,      \* KimiTransformer.options (the fields the model reads)
    messages,     \* request.messages: the prior conversation
    toolCalls,    \* the tool calls handed to repairOrNormalizeToolCalls
    repaired,     \* its return value
    rpc,          \* "call" before the call, "done" after it
    kimiLines,    \* Kimi upstream response body: its SSE lines, in order
    kimiUnread,   \* the part of that body reader.read() has not returned yet
    kimi,         \* per-stream state of handleStreamingToolCalls, with its output
    kpc,          \* "idle", "reading", "closed"
    anthLines,    \* upstream (OpenAI-style) response body: its SSE lines
    anthUnread,   \* the part of that body reader.read() has not returned yet
    conv,         \* closure state of convertOpenAIStreamToAnthropic, with its output
    apc,          \* "idle", "reading", "done"
    request,      \* the UnifiedChatRequest as it is handed to the call
    requestIn,    \* outcome of KimiTransformer.transformRequestIn
    response,     \* body of Kimi's non-streaming upstream response
    responseOut,  \* outcome of KimiTransformer.transformResponseOut
    mmOptions,    \* MiniMaxM2Transformer.options (the fields the model reads)
    mmResponse,   \* body of MiniMax-M2's non-streaming upstream response
    mmOut,        \* outcome of MiniMaxM2Transformer.transformResponseOut
    respLines,    \* Responses-API upstream event stream: its lines, in order
    respUnread,   \* the part of that body reader.read() has not returned yet
    rsp,          \* buffer, isStreamEnded and output of the stream conversion
    rspc,         \* "idle", "reading", "closed"
    providers,    \* ProviderService.providers: name -> LLMProvider
    modelRoutes,  \* ProviderService.modelRoutes: key -> ModelRoute
    httpReq,      \* the request the model-resolution preHandler is run on
    reply,        \* what the preHandler did: sent a reply or let the request on
    rsnIn,        \* ReasoningTransformer: this.enable and the request handed in
    rsnOut,       \* ReasoningTransformer.transformRequestOut: the request returned
    hdrIn,        \* extractForwardableHeaders: headers and customAllowList
    hdrOut,       \* extractForwardableHeaders: the headers returned
    envIn,        \* resolveEnvVars: process.env and value and options
    envOut,       \* resolveEnvVars: what it returned or threw
    net,          \* sendUnifiedRequest: the signals and the timer of one call
    twoStreams,   \* two response streams of one transformer instance
    closures,     \* the per-stream state held in each stream's closure
    normIn,       \* normalizeToolMessages: the messages handed in
    normOut,      \* normalizeToolMessages: the messages returned
    a2uIn,        \* AnthropicTransformer.transformRequestOut: the Anthropic request
    a2uOut,       \* AnthropicTransformer.transformRequestOut: the unified messages
    egress,       \* convertOpenAIStreamToAnthropic with a cancelling client
    fcIn,         \* Responses stream: the function call events
    fcOut,        \* Responses stream: the chunks enqueued for them
    thinkLines,   \* ExtraThinkTag stream: the upstream lines
    thinkUnread,  \* ExtraThinkTag stream: the unread part of the body
    think,        \* ExtraThinkTag stream: closure state and chunks enqueued
    tpc           \* ExtraThinkTag stream: position of the start callback

repairVars == <<options, messages, toolCalls, repaired, rpc>>
kimiVars == <<kimiLines, kimiUnread, kimi, kpc>>
anthVars == <<anthLines, anthUnread, conv, apc>>
requestVars == <<request, requestIn>>
responseVars == <<response, responseOut>>
minimaxVars == <<mmOptions, mmResponse, mmOut>>
respVars == <<respLines, respUnread, rsp, rspc>>
providerVars == <<providers, modelRoutes>>
serverVars == <<httpReq, reply>>
reasoningVars == <<rsnIn, rsnOut>>
headersVars == <<hdrIn, hdrOut>>
envVars == <<envIn, envOut>>
netVars == <<net>>
streamsVars == <<twoStreams, closures>>
normalizeVars == <<normIn, normOut>>
a2uVars == <<a2uIn, a2uOut>>
egressVars == <<egress>>
fcallsVars == <<fcIn, fcOut>>
thinkVars == <<thinkLines, thinkUnread, think, tpc>>
vars == <<options, messages, toolCalls, repaired, rpc,
          kimiLines, kimiUnread, kimi, kpc,
          anthLines, anthUnread, conv, apc,
          request, requestIn, response, responseOut,
          mmOptions, mmResponse, mmOut,
          respLines, respUnread, rsp, rspc,
          providers, modelRoutes, httpReq, reply,
          rsnIn, rsnOut,
          hdrIn, hdrOut,
          envIn, envOut,
          net,
          twoStreams, closures,
          normIn, normOut,
          a2uIn, a2uOut,
          egress,
          fcIn, fcOut,
          thinkLines, thinkUnread, think, tpc>>

---------------------------------------------------------------------------
(* Bounds of the model *)

MaxCalls == 2
MaxHistory == 2
MaxKimiLines == 3
MaxAnthLines == 3
MaxInvokes == 2
MaxRespLines == 3
MaxModels == 2
MaxModelLen == 3
MaxText == 4
MaxAllow == 2
MaxEnvLen == 4
MaxTicks == 3
MaxStreamLines == 2
MaxNormMessages == 3
MaxA2UMessages == 2
MaxA2UParts == 2
MaxFunctionCalls == 2
MaxThinkLines == 3

---------------------------------------------------------------------------
(* Strings *)

DigitChars == <<"0", "1", "2", "3", "4", "5", "6", "7", "8", "9">>

IsDigit(c) == \E i \in 1..Len(DigitChars) : DigitChars[i] = c

DigitVal(c) == (CHOOSE i \in 1..Len(DigitChars) : DigitChars[i] = c) - 1

\* parseInt(match[1], 10) on a non-empty run of decimal digits
RECURSIVE parseInt(_)
parseInt(ds) ==
    IF ds = <<>> THEN 0
    ELSE 10 * parseInt(SubSeq(ds, 1, Len(ds) - 1)) + DigitVal(ds[Len(ds)])

\* `${n}` for a non-negative integer n
RECURSIVE numberToString(_)
numberToString(n) ==
    IF n < 10 THEN <<DigitChars[n + 1]>>
    ELSE numberToString(n \div 10) \o <<DigitChars[(n % 10) + 1]>>

---------------------------------------------------------------------------
(* The cached id pattern.  The source builds it from the template literal   *)
(* `${escaped prefix}\.[^:]+:(\\d+)` with flag g: inside a template literal *)
(* `\.` is a plain `.`, so the pattern is  functions.[^:]+:(\d+)  where `.` *)
(* matches any character, and the pattern is not anchored.                 *)

\* Position of the first ":" of s at or after p, 0 when there is none.
RECURSIVE FirstColon(_, _)
FirstColon(s, p) ==
    IF p > Len(s) THEN 0
    ELSE IF s[p] = ":" THEN p
    ELSE FirstColon(s, p + 1)

\* Last position of the run of digits of s that starts at p (p - 1: no digit).
RECURSIVE DigitRunEnd(_, _)
DigitRunEnd(s, p) ==
    IF p <= Len(s) /\ IsDigit(s[p]) THEN DigitRunEnd(s, p + 1) ELSE p - 1

\* One attempt of the pattern at position p of s: the prefix, any one
\* character, one or more characters other than ":", a ":", then digits.
idRegexAt(s, p) ==
    LET q == FirstColon(s, p + 2)
        e == DigitRunEnd(s, q + 1)
    IN  IF /\ p + 1 <= Len(s)
           /\ s[p] = "F"
           /\ q >= p + 3
           /\ e >= q + 1
        THEN [ok |-> TRUE, from |-> q + 1, to |-> e]
        ELSE [ok |-> FALSE, from |-> 0, to |-> 0]

\* [...id.matchAll(idRegex)] mapped to parseInt(match[1], 10), scanning from p
RECURSIVE matchAll(_, _)
matchAll(s, p) ==
    IF p > Len(s) THEN <<>>
    ELSE LET m == idRegexAt(s, p)
         IN  IF m.ok
             THEN <<parseInt(SubSeq(s, m.from, m.to))>> \o matchAll(s, m.to + 1)
             ELSE matchAll(s, p + 1)

\* idRegex.test(id) with lastIndex = 0 (the code resets it after every test)
idRegexTest(s) == matchAll(s, 1) # <<>>

Max(a, b) == IF a >= b THEN a ELSE b

RECURSIVE MaxOfSeq(_, _)
MaxOfSeq(ns, m) ==
    IF ns = <<>> THEN m ELSE MaxOfSeq(Tail(ns), Max(m, Head(ns)))

---------------------------------------------------------------------------
(* KimiTransformer.getNextToolCallIndex / repairOrNormalizeToolCalls        *)
(* A message is [role, tool_calls (sequence of ids), tool_call_id]; an      *)
(* empty tool_call_id is an absent one.  A tool call is [id, name,          *)
(* arguments]; name stands for function.name.                               *)

\* the ids of one message's tool_calls, folded into maxIndex
RECURSIVE MaxOverIds(_, _)
MaxOverIds(ids, m) ==
    IF ids = <<>> THEN m
    ELSE MaxOverIds(Tail(ids), MaxOfSeq(matchAll(Head(ids), 1), m))

RECURSIVE MaxOverMessages(_, _)
MaxOverMessages(msgs, m) ==
    IF msgs = <<>> THEN m
    ELSE LET msg == Head(msgs)
             m1  == MaxOverIds(msg.tool_calls, m)
             m2  == IF msg.role = "tool" /\ msg.tool_call_id # <<>>
                    THEN MaxOfSeq(matchAll(msg.tool_call_id, 1), m1)
                    ELSE m1
         IN  MaxOverMessages(Tail(msgs), m2)

getNextToolCallIndex_MaxNotNext(opts, msgs) ==
    IF ~opts.idPrefixSet THEN 0 ELSE Max(MaxOverMessages(msgs, -1), 0)

getNextToolCallIndex(opts, msgs) ==
    IF ~opts.idPrefixSet THEN 0 ELSE MaxOverMessages(msgs, -1) + 1

normalizedId(name, n) == <<"F", ".">> \o name \o <<":">> \o numberToString(n)

RECURSIVE RepairMap_IgnoreValid(_, _, _, _)
RepairMap_IgnoreValid(opts, calls, base, offset) ==
    IF calls = <<>> THEN <<>>
    ELSE LET call == Head(calls)
         IN  IF opts.idNormalization \/ opts.repairOnMismatch
             THEN <<[call EXCEPT !.id = normalizedId(call.name, base + offset)]>>
                  \o RepairMap_IgnoreValid(opts, Tail(calls), base, offset + 1)
             ELSE <<call>> \o RepairMap_IgnoreValid(opts, Tail(calls), base, offset)

\* toolCalls.map(...) with the running offset
RECURSIVE RepairMap(_, _, _, _)
RepairMap(opts, calls, base, offset) ==
    IF calls = <<>> THEN <<>>
    ELSE LET call    == Head(calls)
             isValid == idRegexTest(call.id)
         IN  IF opts.idNormalization \/ (opts.repairOnMismatch /\ ~isValid)
             THEN <<[call EXCEPT !.id = normalizedId(call.name, base + offset)]>>
                  \o RepairMap(opts, Tail(calls), base, offset + 1)
             ELSE <<call>> \o RepairMap(opts, Tail(calls), base, offset)

repairOrNormalizeToolCalls(opts, calls, msgs) ==
    IF ~opts.idNormalization /\ ~opts.repairOnMismatch THEN calls
    ELSE IF calls = <<>> THEN calls
    ELSE IF ~opts.idPrefixSet THEN calls
    ELSE RepairMap(opts, calls, getNextToolCallIndex(opts, msgs), 0)

---------------------------------------------------------------------------
(* Inputs of the id repair *)

SeqsUpTo(S, n) == UNION {[1..k -> S] : k \in 0..n}

CanonA0  == <<"F", ".", "a", ":", "0">>      \* functions.a:0
CanonB2  == <<"F", ".", "b", ":", "2">>      \* functions.b:2
CanonA10 == <<"F", ".", "a", ":", "1", "0">> \* functions.a:10
BadId    == <<"c", "1">>                     \* call id of another dialect
LaxDotId == <<"F", "_", "a", ":", "1">>      \* functions_a:1
TailedId == <<"F", ".", "a", ":", "1", "x">> \* functions.a:1x
NoIndexId == <<"F", ".", "a", ":", "x">>     \* functions.a:x

CallPool ==
    { [id |-> CanonA0,   name |-> <<"a">>, arguments |-> <<"{", "}">>],
      [id |-> CanonB2,   name |-> <<"b">>, arguments |-> <<"{", "}">>],
      [id |-> BadId,     name |-> <<"a">>, arguments |-> <<"{", "}">>],
      [id |-> <<>>,      name |-> <<"b">>, arguments |-> <<>>],
      [id |-> LaxDotId,  name |-> <<"a">>, arguments |-> <<"{", "}">>],
      [id |-> TailedId,  name |-> <<"a">>, arguments |-> <<"{", "}">>],
      [id |-> NoIndexId, name |-> <<"a">>, arguments |-> <<"{", "}">>] }

MessagePool ==
    { [role |-> "user",      tool_calls |-> <<>>,                 tool_call_id |-> <<>>],
      [role |-> "assistant", tool_calls |-> <<CanonA0>>,          tool_call_id |-> <<>>],
      [role |-> "assistant", tool_calls |-> <<BadId, CanonB2>>,   tool_call_id |-> <<>>],
      [role |-> "tool",      tool_calls |-> <<>>,                 tool_call_id |-> CanonA10],
      [role |-> "tool",      tool_calls |-> <<>>,                 tool_call_id |-> BadId] }

OptionSets ==
    [idNormalization : BOOLEAN, repairOnMismatch : BOOLEAN, idPrefixSet : BOOLEAN,
     assembleToolDeltas : BOOLEAN]

\* stopReasonMessageDelta = null
NoMessageDelta == [set |-> FALSE, stop_reason |-> "", usage |-> 0]

\* the closure variables of convertOpenAIStreamToAnthropic as declared, the
\* line buffer, the events enqueued so far and the controller's state
ConvInit ==
    [stopReasonMessageDelta |-> NoMessageDelta,
     hasStarted |-> FALSE,
     hasTextContentStarted |-> FALSE,
     hasFinished |-> FALSE,
     toolCalls |-> <<>>,
     toolCallIndexToContentBlockIndex |-> <<>>,
     isClosed |-> FALSE,
     isThinkingStarted |-> FALSE,
     contentIndex |-> 0,
     currentContentBlockIndex |-> -1,
     buffer |-> <<>>,
     out |-> <<>>,
     controllerClosed |-> FALSE]

\* the state of a response stream that is not being processed
KimiIdle ==
    [buffered |-> <<>>, toolCallBuffers |-> <<>>, finalized |-> FALSE, out |-> <<>>]

\* a request without tools, tool_choice or messages
NoRequest == [tools |-> 0, tool_choice |-> "", messages |-> <<>>]

\* the outcome of a call that has not been made
NotCalled == [status |-> "none"]

\* context.req.body when the context carries no request
undefined == [kind |-> "undefined"]

\* a response body that JSON.parse rejects
NotJson == [parses |-> FALSE]

\* let buffer = ""; let isStreamEnded = false; nothing enqueued
RespIdle == [buffer |-> <<>>, isStreamEnded |-> FALSE, out |-> <<>>]

\* before the call: the caller's signal, if there is one, may be aborted
NetIdle ==
    [called |-> FALSE, hasSignal |-> FALSE, signalAborted |-> FALSE,
     TIMEOUT |-> undefined, now |-> 0, ticks |-> 0, start |-> 0,
     signalListener |-> FALSE, timeoutListener |-> FALSE,
     timeoutAborted |-> FALSE, controllerAborted |-> FALSE,
     combinedSignal |-> "none"]

\* the MiniMax-M2 constructor's defaults
MiniMaxDefaults ==
    [manualToolParsing |-> TRUE, enforceFinishReasonLoop |-> TRUE,
     thinkingEnabled |-> TRUE, extractToField |-> TRUE]

---------------------------------------------------------------------------
(* Every specification below runs one component g; the others are at rest   *)
(* and stay so.                                                             *)

EgressIdle == [conv |-> ConvInit, unread |-> <<>>, pc |-> "idle", failed |-> FALSE]

\* the closure variables of the ExtraThinkTag stream as declared, and the
\* chunks enqueued
ThinkIdle ==
    [lineBuffer |-> <<>>, fsmState |-> "SEARCHING", tagBuffer |-> <<>>,
     finalBuffer |-> <<>>, contentIndex |-> 0, out |-> <<>>, closed |-> FALSE]

Idle(g) ==
    /\ IF g = "repair" THEN TRUE
       ELSE toolCalls = <<>> /\ repaired = <<>> /\ rpc = "idle"
    /\ IF g = "kimi" THEN TRUE
       ELSE kimiLines = <<>> /\ kimiUnread = <<>> /\ kimi = KimiIdle /\ kpc = "idle"
    /\ IF g = "anth" THEN TRUE
       ELSE anthLines = <<>> /\ anthUnread = <<>> /\ conv = ConvInit /\ apc = "idle"
    /\ IF g = "request" THEN TRUE ELSE requestIn = NotCalled
    /\ IF g \in {"request", "response", "minimax"} THEN TRUE
       ELSE request = NoRequest
    /\ IF g = "response" THEN TRUE
       ELSE response = NotJson /\ responseOut = NotCalled
    /\ IF g = "minimax" THEN TRUE
       ELSE mmOptions = MiniMaxDefaults /\ mmResponse = NotJson /\ mmOut = NotCalled
    /\ IF g = "responses" THEN TRUE
       ELSE /\ respLines = <<>> /\ respUnread = <<>> /\ rspc = "idle"
            /\ rsp = RespIdle
    /\ IF g = "providers" THEN TRUE
       ELSE providers = <<>> /\ modelRoutes = <<>>
    /\ IF g = "server" THEN TRUE
       ELSE httpReq = NoRequest /\ reply = NotCalled
    /\ IF g = "reasoning" THEN TRUE
       ELSE rsnIn = NoRequest /\ rsnOut = NotCalled
    /\ IF g = "headers" THEN TRUE
       ELSE hdrIn = NoRequest /\ hdrOut = NotCalled
    /\ IF g = "env" THEN TRUE
       ELSE envIn = NoRequest /\ envOut = NotCalled
    /\ IF g = "net" THEN TRUE
       ELSE net = NetIdle
    /\ IF g = "streams" THEN TRUE
       ELSE twoStreams = <<>> /\ closures = <<>>
    /\ IF g = "normalize" THEN TRUE
       ELSE normIn = <<>> /\ normOut = NotCalled
    /\ IF g = "a2u" THEN TRUE
       ELSE a2uIn = [system |-> undefined, messages |-> <<>>] /\ a2uOut = NotCalled
    /\ IF g = "egress" THEN TRUE
       ELSE egress = EgressIdle
    /\ IF g = "fcalls" THEN TRUE
       ELSE fcIn = <<>> /\ fcOut = <<>>
    /\ IF g = "think" THEN TRUE
       ELSE thinkLines = <<>> /\ thinkUnread = <<>> /\ think = ThinkIdle /\ tpc = "idle"

Others(g) ==
    /\ IF g = "repair" THEN TRUE ELSE UNCHANGED repairVars
    /\ IF g = "kimi" THEN TRUE ELSE UNCHANGED kimiVars
    /\ IF g = "anth" THEN TRUE ELSE UNCHANGED anthVars
    /\ IF g = "request" THEN TRUE ELSE UNCHANGED requestVars
    /\ IF g = "response" THEN TRUE ELSE UNCHANGED responseVars
    /\ IF g = "minimax" THEN TRUE ELSE UNCHANGED minimaxVars
    /\ IF g = "responses" THEN TRUE ELSE UNCHANGED respVars
    /\ IF g = "providers" THEN TRUE ELSE UNCHANGED providerVars
    /\ IF g = "server" THEN TRUE ELSE UNCHANGED serverVars
    /\ IF g = "reasoning" THEN TRUE ELSE UNCHANGED reasoningVars
    /\ IF g = "headers" THEN TRUE ELSE UNCHANGED headersVars
    /\ IF g = "env" THEN TRUE ELSE UNCHANGED envVars
    /\ IF g = "net" THEN TRUE ELSE UNCHANGED netVars
    /\ IF g = "streams" THEN TRUE ELSE UNCHANGED streamsVars
    /\ IF g = "normalize" THEN TRUE ELSE UNCHANGED normalizeVars
    /\ IF g = "a2u" THEN TRUE ELSE UNCHANGED a2uVars
    /\ IF g = "egress" THEN TRUE ELSE UNCHANGED egressVars
    /\ IF g = "fcalls" THEN TRUE ELSE UNCHANGED fcallsVars
    /\ IF g = "think" THEN TRUE ELSE UNCHANGED thinkVars

---------------------------------------------------------------------------
(* Specification of one call of the id repair *)

RepairInit ==
    /\ options \in {o \in OptionSets : ~o.assembleToolDeltas}
    /\ Idle("repair")
    /\ messages \in SeqsUpTo(MessagePool, MaxHistory)
    /\ toolCalls \in SeqsUpTo(CallPool, MaxCalls)
    /\ repaired = <<>>
    /\ rpc = "call"

Repair ==
    /\ rpc = "call"
    /\ repaired' = repairOrNormalizeToolCalls(options, toolCalls, messages)
    /\ rpc' = "done"
    /\ UNCHANGED <<options, messages, toolCalls>>
    /\ Others("repair")

RepairNext == Repair

SpecRepair == RepairInit /\ [][RepairNext]_vars

---------------------------------------------------------------------------
(* Canonical ids, stated independently of the pattern the code uses:        *)
(* exactly  functions.<name>:<digits>  with a non-empty name without ":"    *)

NoColon(s) == \A i \in 1..Len(s) : s[i] # ":"

AllDigits(s) == \A i \in 1..Len(s) : IsDigit(s[i])

IsCanonical(id) ==
    \E q \in 4..Len(id) :
        /\ id[1] = "F" /\ id[2] = "."
        /\ id[q] = ":"
        /\ NoColon(SubSeq(id, 3, q - 1))
        /\ q < Len(id)
        /\ AllDigits(SubSeq(id, q + 1, Len(id)))

CanonicalIndex(id) == parseInt(SubSeq(id, FirstColon(id, 1) + 1, Len(id)))

\* every id of the prior messages that the code reads
HistoryIds ==
    UNION { {messages[i].tool_calls[j] : j \in 1..Len(messages[i].tool_calls)}
            \cup (IF messages[i].role = "tool" /\ messages[i].tool_call_id # <<>>
                  THEN {messages[i].tool_call_id} ELSE {})
            : i \in 1..Len(messages) }

RewrittenBefore(k) ==
    Cardinality({j \in 1..(k - 1) : ~IsCanonical(toolCalls[j].id)})

\* C10: with the default options (idNormalization off, repairOnMismatch on)
\* a call whose id is canonical is returned unchanged, every other call gets
\* the id functions.<function.name>:<nextIndex + k>, k the number of calls
\* rewritten before it, and name and arguments of every call are unchanged.
C10_RepairOnlyNonCanonical ==
    (rpc = "done" /\ ~options.idNormalization /\ options.repairOnMismatch
                  /\ options.idPrefixSet) =>
        /\ Len(repaired) = Len(toolCalls)
        /\ \A k \in 1..Len(repaired) :
              /\ repaired[k].name = toolCalls[k].name
              /\ repaired[k].arguments = toolCalls[k].arguments
              /\ IsCanonical(toolCalls[k].id) => repaired[k] = toolCalls[k]
              /\ ~IsCanonical(toolCalls[k].id) =>
                    repaired[k].id =
                        normalizedId(toolCalls[k].name,
                                     getNextToolCallIndex(options, messages)
                                        + RewrittenBefore(k))

AllCanonical(calls) == \A k \in 1..Len(calls) : IsCanonical(calls[k].id)

IdsOf(calls) == [k \in 1..Len(calls) |-> calls[k].id]

\* C11 as stated: whenever repair is active (idNormalization or
\* repairOnMismatch is on), a list of calls whose ids are all canonical is
\* returned with the same ids, whatever the message history.
C11_CanonicalIdsKept ==
    (/\ rpc = "done"
     /\ options.idNormalization \/ options.repairOnMismatch
     /\ AllCanonical(toolCalls)) =>
        IdsOf(repaired) = IdsOf(toolCalls)

\* C11 as amended: with idNormalization off, a list of calls whose ids are
\* all canonical is returned unchanged, whatever the message history and
\* whatever repairOnMismatch is.
C11_CanonicalIdsKeptByRepair ==
    (rpc = "done" /\ ~options.idNormalization /\ AllCanonical(toolCalls)) =>
        repaired = toolCalls

C11_Witness ==
    /\ rpc = "done"
    /\ ~options.idNormalization /\ options.repairOnMismatch /\ options.idPrefixSet
    /\ Len(toolCalls) = 2 /\ AllCanonical(toolCalls)
    /\ toolCalls[1].id = CanonB2 /\ toolCalls[2].id = CanonA0
    /\ CanonA10 \in HistoryIds
    /\ repaired = toolCalls

PairwiseDistinctIds(calls) ==
    \A i, j \in 1..Len(calls) : i # j => calls[i].id # calls[j].id

\* C34: after the id repair the ids of one response are pairwise distinct
\* whenever the ids handed in were; in particular a repaired id differs from
\* every canonical id that was kept.
C34_RepairedIdsDistinct ==
    (rpc = "done" /\ PairwiseDistinctIds(toolCalls)) => PairwiseDistinctIds(repaired)

\* C34, where it holds: with idNormalization every id is renumbered
C34_DistinctWhenNormalizing ==
    (rpc = "done" /\ options.idNormalization /\ options.idPrefixSet)
        => PairwiseDistinctIds(repaired)

---------------------------------------------------------------------------
(* KimiTransformer.handleStreamingToolCalls                                 *)
(* The upstream body is a sequence of atoms: the text of one SSE line       *)
(* (without its newline) or a newline.  A line is                           *)
(*   kind "json"  : data: <a chat.completion.chunk>                         *)
(*   kind "done"  : data: [DONE]                                            *)
(*   kind "bad"   : data: <text JSON.parse rejects>                         *)
(*   kind "other" : a line that does not start with data:                   *)
(* tool_calls is choices[0].delta.tool_calls (<<>>: absent), each entry     *)
(* [index, id, name, arguments] with <<>> for an absent field; finish is    *)
(* choices[0].finish_reason ("" when absent); text tells chunks apart.      *)

KLine(kind, text, tcs, fin) ==
    [kind |-> kind, text |-> text, tool_calls |-> tcs, finish |-> fin]

NL == KLine("nl", "", <<>>, "")

NoLine == KLine("none", "", <<>>, "")

Delta(index, id, name, arguments) ==
    [index |-> index, id |-> id, name |-> name, arguments |-> arguments]

\* an enqueued piece of the response body
KOut(type, line, calls) == [type |-> type, line |-> line, tool_calls |-> calls]

\* Array.from(entries).sort by index, mapped to the calls
RECURSIVE SortedCalls(_, _)
SortedCalls(buffers, keys) ==
    IF keys = {} THEN <<>>
    ELSE LET lo == CHOOSE i \in keys : \A j \in keys : i <= j
         IN  <<buffers[lo]>> \o SortedCalls(buffers, keys \ {lo})

flush(opts, msgs, k) ==
    IF ~opts.assembleToolDeltas \/ k.finalized \/ DOMAIN k.toolCallBuffers = {}
    THEN k
    ELSE LET calls == SortedCalls(k.toolCallBuffers, DOMAIN k.toolCallBuffers)
             fixed == repairOrNormalizeToolCalls(opts, calls, msgs)
         IN  [k EXCEPT !.out = Append(@, KOut("synth", NoLine, fixed)),
                       !.finalized = TRUE]

bufferToolCall_Overwrite(buffers, tc) ==
    LET existing == IF tc.index \in DOMAIN buffers THEN buffers[tc.index]
                    ELSE [id |-> tc.id, name |-> <<>>, arguments |-> <<>>]
        id1   == IF tc.id # <<>> THEN tc.id ELSE existing.id
        name1 == IF tc.name # <<>> THEN tc.name ELSE existing.name
        args1 == IF tc.arguments # <<>> THEN tc.arguments ELSE existing.arguments
        id2   == IF id1 = <<>> /\ name1 # <<>>
                 THEN normalizedId(name1, tc.index) ELSE id1
    IN  [i \in DOMAIN buffers \cup {tc.index} |->
            IF i = tc.index
            THEN [id |-> id2, name |-> name1, arguments |-> args1]
            ELSE buffers[i]]

\* the body of  for (const tc of delta.tool_calls)
bufferToolCall(buffers, tc) ==
    LET existing == IF tc.index \in DOMAIN buffers THEN buffers[tc.index]
                    ELSE [id |-> tc.id, name |-> <<>>, arguments |-> <<>>]
        id1   == IF tc.id # <<>> THEN tc.id ELSE existing.id
        name1 == IF tc.name # <<>> THEN tc.name ELSE existing.name
        args1 == existing.arguments \o tc.arguments
        id2   == IF id1 = <<>> /\ name1 # <<>>
                 THEN normalizedId(name1, tc.index) ELSE id1
    IN  [i \in DOMAIN buffers \cup {tc.index} |->
            IF i = tc.index
            THEN [id |-> id2, name |-> name1, arguments |-> args1]
            ELSE buffers[i]]

RECURSIVE bufferToolCalls(_, _)
bufferToolCalls(buffers, tcs) ==
    IF tcs = <<>> THEN buffers
    ELSE bufferToolCalls(bufferToolCall(buffers, Head(tcs)), Tail(tcs))

\* buffered.indexOf("\n"), 1-based, 0 when there is none
RECURSIVE IndexOfNL(_, _)
IndexOfNL(text, p) ==
    IF p > Len(text) THEN 0
    ELSE IF text[p].kind = "nl" THEN p
    ELSE IndexOfNL(text, p + 1)

\* One line of the inner loop, the line already cut off the buffer.
\* Returns the state and whether the loop goes on (FALSE: break).
kimiLine(opts, msgs, k, rawLine) ==
    LET line == IF Len(rawLine) = 1 THEN rawLine[1] ELSE NoLine
        fwd(st) == [st EXCEPT !.out = Append(@, KOut("data", line, <<>>))]
    IN  IF line.kind \notin {"json", "done", "bad"}
        THEN [k |-> [k EXCEPT !.out = Append(@, KOut("raw", line, <<>>))],
              go |-> TRUE]
        ELSE IF line.kind = "done"
        THEN [k |-> [flush(opts, msgs, k) EXCEPT
                        !.out = Append(@, KOut("done", NoLine, <<>>))],
              go |-> FALSE]
        ELSE IF line.kind = "bad"
        THEN [k |-> [k EXCEPT !.out = Append(@, KOut("raw", line, <<>>))],
              go |-> TRUE]
        ELSE IF ~opts.assembleToolDeltas
        THEN [k |-> fwd(k), go |-> TRUE]
        ELSE IF line.tool_calls # <<>>
        THEN [k |-> fwd([k EXCEPT !.toolCallBuffers =
                                    bufferToolCalls(@, line.tool_calls)]),
              go |-> TRUE]
        ELSE IF line.finish = "tool_calls"
        THEN [k |-> fwd(flush(opts, msgs, k)), go |-> TRUE]
        ELSE [k |-> fwd(k), go |-> TRUE]

\* while ((newlineIndex = buffered.indexOf("\n")) >= 0) { ... }
RECURSIVE kimiDrain(_, _, _)
kimiDrain(opts, msgs, k) ==
    LET i == IndexOfNL(k.buffered, 1)
    IN  IF i = 0 THEN k
        ELSE LET rawLine == SubSeq(k.buffered, 1, i - 1)
                 rest    == SubSeq(k.buffered, i + 1, Len(k.buffered))
                 r       == kimiLine(opts, msgs, [k EXCEPT !.buffered = rest], rawLine)
             IN  IF r.go THEN kimiDrain(opts, msgs, r.k) ELSE r.k

\* the lines of a body, each followed by its newline
RECURSIVE Body(_)
Body(lines) ==
    IF lines = <<>> THEN <<>> ELSE <<Head(lines), NL>> \o Body(Tail(lines))

KimiLinePool ==
    { KLine("json", "t1", <<Delta(0, <<"c">>, <<"a">>, <<>>)>>, ""),
      KLine("json", "t2", <<Delta(0, <<>>, <<>>, <<"x">>)>>, ""),
      KLine("json", "t3", <<Delta(1, <<>>, <<"b">>, <<"y">>),
                            Delta(0, <<>>, <<>>, <<"z">>)>>, ""),
      KLine("json", "fin", <<>>, "tool_calls"),
      KLine("json", "txt", <<>>, ""),
      KLine("done", "", <<>>, ""),
      KLine("bad", "", <<>>, ""),
      KLine("other", "", <<>>, "") }

KimiInit ==
    /\ options \in {o \in OptionSets :
                      o.repairOnMismatch /\ o.idPrefixSet /\ ~o.idNormalization}
    /\ messages = <<>>
    /\ Idle("kimi")
    /\ kimiLines \in SeqsUpTo(KimiLinePool, MaxKimiLines)
    /\ kimiUnread = Body(kimiLines)
    /\ kimi = KimiIdle
    /\ kpc = "reading"

\* reader.read() returns the next n characters of the body: done is false
KimiRead ==
    /\ kpc = "reading"
    /\ \E n \in 1..Len(kimiUnread) :
          /\ kimi' = kimiDrain(options, messages,
                         [kimi EXCEPT !.buffered = @ \o SubSeq(kimiUnread, 1, n)])
          /\ kimiUnread' = SubSeq(kimiUnread, n + 1, Len(kimiUnread))
    /\ UNCHANGED <<kimiLines, kpc>>
    /\ Others("kimi")

\* reader.read() returns done: the final flush, then controller.close()
KimiEnd ==
    /\ kpc = "reading"
    /\ kimiUnread = <<>>
    /\ kimi' = flush(options, messages, kimi)
    /\ kpc' = "closed"
    /\ UNCHANGED <<kimiLines, kimiUnread>>
    /\ Others("kimi")

KimiNext == KimiRead \/ KimiEnd

SpecKimi == KimiInit /\ [][KimiNext]_vars

---------------------------------------------------------------------------
(* Claims about the Kimi streaming assembly *)

\* the function.arguments fragments for tool-call index idx, concatenated in
\* arrival order, over the tool_calls entries of one chunk
RECURSIVE ArgsOfEntries(_, _)
ArgsOfEntries(tcs, idx) ==
    IF tcs = <<>> THEN <<>>
    ELSE (IF Head(tcs).index = idx THEN Head(tcs).arguments ELSE <<>>)
         \o ArgsOfEntries(Tail(tcs), idx)

\* ... and over a sequence of lines
RECURSIVE ArgsOfLines(_, _)
ArgsOfLines(lines, idx) ==
    IF lines = <<>> THEN <<>>
    ELSE ArgsOfEntries(Head(lines).tool_calls, idx) \o ArgsOfLines(Tail(lines), idx)

IndicesOfLines(lines) ==
    UNION { {lines[i].tool_calls[j].index : j \in 1..Len(lines[i].tool_calls)}
            : i \in 1..Len(lines) }

RECURSIVE Ascending(_)
Ascending(S) ==
    IF S = {} THEN <<>>
    ELSE LET lo == CHOOSE i \in S : \A j \in S : i <= j
         IN  <<lo>> \o Ascending(S \ {lo})

IsJsonLine(l) == l.kind = "json"

IsDataOut(e) == e.type = "data"

RECURSIVE LinesOf(_)
LinesOf(events) ==
    IF events = <<>> THEN <<>> ELSE <<Head(events).line>> \o LinesOf(Tail(events))

\* the upstream chunks forwarded before position p of the output
ForwardedBefore(out, p) == LinesOf(SelectSeq(SubSeq(out, 1, p - 1), IsDataOut))

\* position of the first element of seq that satisfies Test, 0 if none
FirstDoneLine(lines) ==
    IF \E i \in 1..Len(lines) : lines[i].kind = "done"
    THEN CHOOSE i \in 1..Len(lines) :
            /\ lines[i].kind = "done"
            /\ \A j \in 1..(i - 1) : lines[j].kind # "done"
    ELSE 0

FirstDoneOut(out) ==
    IF \E i \in 1..Len(out) : out[i].type = "done"
    THEN CHOOSE i \in 1..Len(out) :
            /\ out[i].type = "done"
            /\ \A j \in 1..(i - 1) : out[j].type # "done"
    ELSE 0

SynthPositions(out) == {p \in 1..Len(out) : out[p].type = "synth"}

\* C7: with assembleToolDeltas on, for a stream that carries tool-call deltas
\* and ends with data: [DONE], the upstream data chunks before the terminator
\* are forwarded in arrival order, exactly one synthesised chunk is emitted,
\* and it comes after all of them (the finish_reason chunk included) and
\* before data: [DONE].
C7_SynthAfterForwarded ==
    LET d    == FirstDoneLine(kimiLines)
        pre  == SelectSeq(SubSeq(kimiLines, 1, d - 1), IsJsonLine)
        dOut == FirstDoneOut(kimi.out)
    IN  (/\ kpc = "closed" /\ options.assembleToolDeltas
         /\ d > 0 /\ IndicesOfLines(pre) # {}) =>
            /\ dOut > 0
            /\ ForwardedBefore(kimi.out, dOut) = pre
            /\ Cardinality(SynthPositions(kimi.out)) = 1
            /\ \A sp \in SynthPositions(kimi.out) :
                  /\ sp < dOut
                  /\ \A q \in 1..(dOut - 1) : kimi.out[q].type = "data" => q < sp

---------------------------------------------------------------------------
(* AnthropicTransformer.convertOpenAIStreamToAnthropic                      *)
(* An upstream line is                                                      *)
(*   kind "json"  : data: <chunk>      kind "done" : data: [DONE]           *)
(*   kind "bad"   : data: <text JSON.parse rejects>                         *)
(*   kind "other" : a line that does not start with data:                   *)
(* and a chunk has: error (chunk.error set), usage (chunk.usage, its token  *)
(* count; 0: absent), choice (choices[0] present), and of choices[0]:       *)
(* thinking ("", "content", "signature": the field of delta.thinking that   *)
(* is set), content (delta.content), annotations (their number),            *)
(* tool_calls (entries [index, named, arguments]; named: id and             *)
(* function.name present), finish (finish_reason, "": absent).              *)
(* The counters totalChunks, contentChunks and toolCallChunks only feed a   *)
(* console warning and are left out, as are messageId and model.            *)

ALine(kind, error, usage, choice, thinking, content, annotations, tcs, fin) ==
    [kind |-> kind, error |-> error, usage |-> usage, choice |-> choice,
     thinking |-> thinking, content |-> content, annotations |-> annotations,
     tool_calls |-> tcs, finish |-> fin]

\* a chunk with one choice, from its delta fields
AChoice(thinking, content, annotations, tcs, fin, usage) ==
    ALine("json", FALSE, usage, TRUE, thinking, content, annotations, tcs, fin)

ANoChunk(kind) == ALine(kind, FALSE, 0, FALSE, "", <<>>, 0, <<>>, "")

ANL == ANoChunk("nl")

ToolDelta(index, named, arguments) ==
    [index |-> index, named |-> named, arguments |-> arguments]

\* an Anthropic SSE event: its name, block index, block or delta kind (the
\* stop_reason for message_delta), text payload and usage
AEvent(type, index, kind, text, usage) ==
    [type |-> type, index |-> index, kind |-> kind, text |-> text, usage |-> usage]

BlockStart(i, kind) == AEvent("content_block_start", i, kind, <<>>, 0)
BlockDelta(i, kind, text) == AEvent("content_block_delta", i, kind, text, 0)
BlockStop(i) == AEvent("content_block_stop", i, "", <<>>, 0)
MessageDelta(d) == AEvent("message_delta", -1, d.stop_reason, <<>>, d.usage)

safeEnqueue_NoFlag(c, data) ==
    IF c.isClosed \/ c.controllerClosed THEN c
    ELSE [c EXCEPT !.out = Append(@, data)]

\* controller.enqueue throws "Controller is already closed" on a closed or
\* cancelled controller; the catch sets isClosed
safeEnqueue(c, data) ==
    IF c.isClosed THEN c
    ELSE IF c.controllerClosed THEN [c EXCEPT !.isClosed = TRUE]
    ELSE [c EXCEPT !.out = Append(@, data)]

\* "Close any previous content block if open"
closeOpenBlock(c) ==
    IF c.currentContentBlockIndex >= 0
    THEN [safeEnqueue(c, BlockStop(c.currentContentBlockIndex))
              EXCEPT !.currentContentBlockIndex = -1]
    ELSE c

safeClose_NoDefaultDelta(c) ==
    IF c.isClosed THEN c
    ELSE LET c1 == closeOpenBlock(c)
             c2 == IF c1.stopReasonMessageDelta.set
                   THEN [safeEnqueue(c1, MessageDelta(c1.stopReasonMessageDelta))
                            EXCEPT !.stopReasonMessageDelta = NoMessageDelta]
                   ELSE c1
             c3 == safeEnqueue(c2, AEvent("message_stop", -1, "", <<>>, 0))
         IN  [c3 EXCEPT !.controllerClosed = TRUE, !.isClosed = TRUE]

safeClose(c) ==
    IF c.isClosed THEN c
    ELSE LET c1 == closeOpenBlock(c)
             c2 == IF c1.stopReasonMessageDelta.set
                   THEN [safeEnqueue(c1, MessageDelta(c1.stopReasonMessageDelta))
                            EXCEPT !.stopReasonMessageDelta = NoMessageDelta]
                   ELSE safeEnqueue(c1, MessageDelta(
                            [stop_reason |-> "end_turn", usage |-> 0]))
             c3 == safeEnqueue(c2, AEvent("message_stop", -1, "", <<>>, 0))
         IN  [c3 EXCEPT !.controllerClosed = TRUE, !.isClosed = TRUE]

\* if (!hasStarted && !isClosed && !hasFinished) { message_start }
onFirstChunk(c) ==
    IF ~c.hasStarted /\ ~c.isClosed /\ ~c.hasFinished
    THEN safeEnqueue([c EXCEPT !.hasStarted = TRUE],
                     AEvent("message_start", -1, "", <<>>, 0))
    ELSE c

\* if (chunk.usage) { ... }
onUsage(c, chunk) ==
    IF chunk.usage = 0 THEN c
    ELSE IF ~c.stopReasonMessageDelta.set
    THEN [c EXCEPT !.stopReasonMessageDelta =
                      [set |-> TRUE, stop_reason |-> "end_turn", usage |-> chunk.usage]]
    ELSE [c EXCEPT !.stopReasonMessageDelta.usage = chunk.usage]

\* if (choice?.delta?.thinking && !isClosed && !hasFinished) { ... }
onThinking(c, chunk) ==
    IF chunk.thinking = "" \/ c.isClosed \/ c.hasFinished THEN c
    ELSE LET c1 == closeOpenBlock(c)
             c2 == IF ~c1.isThinkingStarted
                   THEN [safeEnqueue(c1, BlockStart(c1.contentIndex, "thinking"))
                            EXCEPT !.currentContentBlockIndex = c1.contentIndex,
                                   !.isThinkingStarted = TRUE]
                   ELSE c1
         IN  IF chunk.thinking = "signature"
             THEN LET c3 == safeEnqueue(c2, BlockDelta(c2.contentIndex,
                                                "signature_delta", <<"s">>))
                      c4 == safeEnqueue(c3, BlockStop(c3.contentIndex))
                  IN  [c4 EXCEPT !.currentContentBlockIndex = -1,
                                 !.contentIndex = @ + 1]
             ELSE safeEnqueue(c2, BlockDelta(c2.contentIndex,
                                             "thinking_delta", <<"r">>))

\* if (choice?.delta?.content && !isClosed && !hasFinished) { ... }
onContent(c, chunk) ==
    IF chunk.content = <<>> \/ c.isClosed \/ c.hasFinished THEN c
    ELSE LET c1 == IF c.currentContentBlockIndex >= 0 /\ ~c.hasTextContentStarted
                   THEN closeOpenBlock(c) ELSE c
             c2 == IF ~c1.hasTextContentStarted /\ ~c1.hasFinished
                   THEN [safeEnqueue([c1 EXCEPT !.hasTextContentStarted = TRUE],
                                     BlockStart(c1.contentIndex, "text"))
                            EXCEPT !.currentContentBlockIndex = c1.contentIndex]
                   ELSE c1
         IN  IF ~c2.isClosed /\ ~c2.hasFinished
             THEN safeEnqueue(c2, BlockDelta(c2.currentContentBlockIndex,
                                             "text_delta", chunk.content))
             ELSE c2

\* choice.delta.annotations.forEach(...)
RECURSIVE forEachAnnotation(_, _)
forEachAnnotation(c, n) ==
    IF n = 0 THEN c
    ELSE LET c1 == [c EXCEPT !.contentIndex = @ + 1]
             c2 == safeEnqueue(c1, BlockStart(c1.contentIndex,
                                              "web_search_tool_result"))
             c3 == safeEnqueue(c2, BlockStop(c2.contentIndex))
         IN  forEachAnnotation([c3 EXCEPT !.currentContentBlockIndex = -1], n - 1)

\* if (choice?.delta?.annotations?.length && !isClosed && !hasFinished) { ... }
onAnnotations(c, chunk) ==
    IF chunk.annotations = 0 \/ c.isClosed \/ c.hasFinished THEN c
    ELSE LET c1 == IF c.currentContentBlockIndex >= 0 /\ c.hasTextContentStarted
                   THEN [closeOpenBlock(c) EXCEPT !.hasTextContentStarted = FALSE]
                   ELSE c
         IN  forEachAnnotation(c1, chunk.annotations)

Put(f, k, v) == [i \in DOMAIN f \cup {k} |-> IF i = k THEN v ELSE f[i]]

\* one entry of delta.tool_calls whose index was not yet seen in this chunk
onToolCall(c, tc) ==
    LET idx == tc.index
        c1  == IF idx \notin DOMAIN c.toolCallIndexToContentBlockIndex
               THEN LET b  == closeOpenBlock(c)
                        nw == b.contentIndex
                        b1 == [b EXCEPT
                                 !.toolCallIndexToContentBlockIndex = Put(@, idx, nw),
                                 !.contentIndex = @ + 1]
                        b2 == safeEnqueue(b1, BlockStart(nw, "tool_use"))
                    IN  [b2 EXCEPT
                           !.currentContentBlockIndex = nw,
                           !.toolCalls = Put(@, idx, [temporary |-> ~tc.named,
                                                      arguments |-> <<>>])]
               ELSE IF tc.named /\ c.toolCalls[idx].temporary
               THEN [c EXCEPT !.toolCalls[idx].temporary = FALSE]
               ELSE c
    IN  IF tc.arguments # <<>> /\ ~c1.isClosed /\ ~c1.hasFinished
        THEN safeEnqueue(
                 [c1 EXCEPT !.toolCalls[idx].arguments = @ \o tc.arguments],
                 BlockDelta(c1.toolCallIndexToContentBlockIndex[idx],
                            "input_json_delta", tc.arguments))
        ELSE c1

\* for (const toolCall of choice.delta.tool_calls), with processedInThisChunk
RECURSIVE forEachToolCall(_, _, _)
forEachToolCall(c, tcs, processedInThisChunk) ==
    IF tcs = <<>> \/ c.isClosed THEN c
    ELSE IF Head(tcs).index \in processedInThisChunk
    THEN forEachToolCall(c, Tail(tcs), processedInThisChunk)
    ELSE forEachToolCall(onToolCall(c, Head(tcs)), Tail(tcs),
                         processedInThisChunk \cup {Head(tcs).index})

\* if (choice?.delta?.tool_calls && !isClosed && !hasFinished) { ... }
onToolCalls(c, chunk) ==
    IF chunk.tool_calls = <<>> \/ c.isClosed \/ c.hasFinished THEN c
    ELSE forEachToolCall(c, chunk.tool_calls, {})

stopReasonMapping(finish_reason) ==
    CASE finish_reason = "stop" -> "end_turn"
      [] finish_reason = "length" -> "max_tokens"
      [] finish_reason = "tool_calls" -> "tool_use"
      [] finish_reason = "content_filter" -> "stop_sequence"
      [] OTHER -> "end_turn"

\* the body of  if (choice?.finish_reason && !isClosed && !hasFinished)
onFinish(c, chunk) ==
    LET c1 == closeOpenBlock(c)
    IN  IF ~c1.isClosed
        THEN [c1 EXCEPT !.stopReasonMessageDelta =
                           [set |-> TRUE,
                            stop_reason |-> stopReasonMapping(chunk.finish),
                            usage |-> chunk.usage]]
        ELSE c1

\* One line of  for (const line of lines).  Returns the state and whether
\* the loop goes on (FALSE: the break after finish_reason).
anthLine(c, line) ==
    LET chunk == IF Len(line) = 1 THEN line[1] ELSE ANoChunk("other")
    IN  IF chunk.kind # "json" THEN [c |-> c, go |-> TRUE]
        ELSE IF chunk.error
        THEN [c |-> safeEnqueue(c, AEvent("error", -1, "api_error", <<>>, 0)),
              go |-> TRUE]
        ELSE LET c1 == onUsage(onFirstChunk(c), chunk)
             IN  IF ~chunk.choice THEN [c |-> c1, go |-> TRUE]
                 ELSE LET c2 == onToolCalls(onAnnotations(onContent(
                                    onThinking(c1, chunk), chunk), chunk), chunk)
                      IN  IF chunk.finish # "" /\ ~c2.isClosed /\ ~c2.hasFinished
                          THEN [c |-> onFinish(c2, chunk), go |-> FALSE]
                          ELSE [c |-> c2, go |-> TRUE]

\* for (const line of lines) { if (isClosed || hasFinished) break; ... }
RECURSIVE forEachLine(_, _)
forEachLine(c, lines) ==
    IF lines = <<>> \/ c.isClosed \/ c.hasFinished THEN c
    ELSE LET r == anthLine(c, Head(lines))
         IN  IF r.go THEN forEachLine(r.c, Tail(lines)) ELSE r.c

\* text.split("\n"): the segments between the newlines, the last one included
RECURSIVE split(_)
split(text) ==
    LET i == IndexOfNL(text, 1)
    IN  IF i = 0 THEN <<text>>
        ELSE <<SubSeq(text, 1, i - 1)>> \o split(SubSeq(text, i + 1, Len(text)))

\* one iteration of the read loop for a read that returns value
anthRead(c, value) ==
    LET segments == split(c.buffer \o value)
        lines    == SubSeq(segments, 1, Len(segments) - 1)
    IN  forEachLine([c EXCEPT !.buffer = segments[Len(segments)]], lines)

RECURSIVE ABody(_)
ABody(lines) ==
    IF lines = <<>> THEN <<>> ELSE <<Head(lines), ANL>> \o ABody(Tail(lines))

ALinePool ==
    { AChoice("content", <<>>, 0, <<>>, "", 0),
      AChoice("signature", <<>>, 0, <<>>, "", 0),
      AChoice("", <<"t">>, 0, <<>>, "", 0),
      AChoice("", <<>>, 1, <<>>, "", 0),
      AChoice("", <<>>, 0, <<ToolDelta(0, TRUE, <<"a">>)>>, "", 0),
      AChoice("", <<>>, 0, <<ToolDelta(1, TRUE, <<"b">>)>>, "", 0),
      AChoice("", <<>>, 0, <<ToolDelta(0, FALSE, <<"c">>),
                             ToolDelta(0, FALSE, <<"d">>)>>, "", 0),
      AChoice("", <<>>, 0, <<>>, "tool_calls", 0),
      ALine("json", FALSE, 7, FALSE, "", <<>>, 0, <<>>, ""),
      ALine("json", TRUE, 0, FALSE, "", <<>>, 0, <<>>, ""),
      ANoChunk("done"),
      ANoChunk("bad") }

AnthInit ==
    /\ options \in {o \in OptionSets :
                      /\ o.repairOnMismatch /\ o.idPrefixSet
                      /\ ~o.idNormalization /\ ~o.assembleToolDeltas}
    /\ messages = <<>>
    /\ Idle("anth")
    /\ anthLines \in SeqsUpTo(ALinePool, MaxAnthLines)
    /\ anthUnread = ABody(anthLines)
    /\ conv = ConvInit
    /\ apc = "reading"

\* reader.read() returns the next n characters of the body
AnthRead ==
    /\ apc = "reading"
    /\ ~conv.isClosed
    /\ \E n \in 1..Len(anthUnread) :
          /\ conv' = anthRead(conv, SubSeq(anthUnread, 1, n))
          /\ anthUnread' = SubSeq(anthUnread, n + 1, Len(anthUnread))
    /\ UNCHANGED <<anthLines, apc>>
    /\ Others("anth")

\* the loop ends (done, or isClosed seen at the top of the loop): safeClose()
AnthEnd ==
    /\ apc = "reading"
    /\ anthUnread = <<>> \/ conv.isClosed
    /\ conv' = safeClose(conv)
    /\ apc' = "done"
    /\ UNCHANGED <<anthLines, anthUnread>>
    /\ Others("anth")

AnthNext == AnthRead \/ AnthEnd

SpecAnth == AnthInit /\ [][AnthNext]_vars

\* Upstream bodies in which a chunk with finish_reason is followed by nothing
\* but chunks without a choice (the usage chunk), [DONE] and other lines
RECURSIVE NothingAfterFinish(_, _)
NothingAfterFinish(lines, finished) ==
    IF lines = <<>> THEN TRUE
    ELSE LET l == Head(lines)
         IN  /\ finished => (l.kind # "json" \/ (~l.choice /\ ~l.error))
             /\ NothingAfterFinish(Tail(lines),
                                   finished \/ (l.kind = "json" /\ l.finish # ""))

AnthInitOrdered == AnthInit /\ NothingAfterFinish(anthLines, FALSE)

SpecAnthOrdered == AnthInitOrdered /\ [][AnthNext]_vars

---------------------------------------------------------------------------
(* Claims about the Anthropic egress converter *)

\* Scan of an event sequence with the set of open blocks: FALSE as soon as a
\* block is started while another is open, a block is stopped that is not
\* open, or message_stop or the end is reached with a block open.
RECURSIVE Bracketed(_, _)
Bracketed(events, open) ==
    IF events = <<>> THEN open = {}
    ELSE LET ev == Head(events)
         IN  CASE ev.type = "content_block_start" ->
                    open = {} /\ Bracketed(Tail(events), {ev.index})
               [] ev.type = "content_block_stop" ->
                    ev.index \in open /\ Bracketed(Tail(events), open \ {ev.index})
               [] ev.type = "message_stop" ->
                    open = {} /\ Bracketed(Tail(events), open)
               [] OTHER -> Bracketed(Tail(events), open)

\* C1: in the event stream of a response that ended normally, every
\* content_block_start(i) is followed by exactly one content_block_stop(i),
\* emitted before message_stop, and no two blocks are open at the same time.
C1_BlockBracketing ==
    apc = "done" => Bracketed(conv.out, {})

PositionsOf(out, type) == {p \in 1..Len(out) : out[p].type = type}

\* C2: the indices of the content_block_start events are strictly increasing
\* in emission order.
C2_IndicesIncrease ==
    \A p, q \in PositionsOf(conv.out, "content_block_start") :
        p < q => conv.out[p].index < conv.out[q].index

\* a chunk the converter reads a finish_reason or a usage from
CarriesFinishOrUsage(l) ==
    l.kind = "json" /\ ~l.error /\ (l.usage # 0 \/ (l.choice /\ l.finish # ""))

DefaultMessageDelta == MessageDelta([stop_reason |-> "end_turn", usage |-> 0])

C3_AtEnd ==
    LET out == conv.out
        n   == Len(out)
        saw == \E i \in 1..Len(anthLines) : CarriesFinishOrUsage(anthLines[i])
    IN  /\ (apc = "reading" /\ anthUnread = <<>>) =>
              (conv.stopReasonMessageDelta.set <=> saw)
        /\ apc = "done" =>
              /\ n >= 2
              /\ out[n].type = "message_stop"
              /\ out[n - 1].type = "message_delta"
              /\ PositionsOf(out, "message_stop") = {n}
              /\ PositionsOf(out, "message_delta") = {n - 1}
              /\ ~saw => out[n - 1] = DefaultMessageDelta

C3_Flush ==
    (apc = "reading" /\ apc' = "done") =>
        conv'.out = conv.out
            \o (IF conv.currentContentBlockIndex >= 0
                THEN <<BlockStop(conv.currentContentBlockIndex)>> ELSE <<>>)
            \o <<IF conv.stopReasonMessageDelta.set
                 THEN MessageDelta(conv.stopReasonMessageDelta)
                 ELSE DefaultMessageDelta,
                 AEvent("message_stop", -1, "", <<>>, 0)>>

\* C3: when the upstream ends normally (the client has not closed the
\* stream), the last two events are exactly one message_delta (the pending
\* one if a finish_reason or a usage was read, otherwise the default with
\* stop_reason end_turn and zero usage) followed by exactly one message_stop.
C3_FinalEvents == [](C3_AtEnd) /\ [][C3_Flush]_vars

C3_Witness ==
    /\ apc = "done"
    /\ Len(conv.out) >= 4
    /\ conv.out[Len(conv.out) - 1] =
          MessageDelta([stop_reason |-> "tool_use", usage |-> 7])
    /\ conv.out[Len(conv.out)].type = "message_stop"

\* C4: message_start is emitted exactly once per stream and precedes every
\* content_block_start, content_block_delta, content_block_stop and
\* message_delta of the stream.
C4_MessageStartOnce ==
    apc = "done" =>
        /\ Cardinality(PositionsOf(conv.out, "message_start")) = 1
        /\ \A p \in PositionsOf(conv.out, "message_start") :
              \A q \in 1..Len(conv.out) :
                  conv.out[q].type \in {"content_block_start", "content_block_delta",
                                        "content_block_stop", "message_delta"}
                      => p < q

\* the events emitted when every line arrives in a read of its own
RECURSIVE OneLinePerRead(_, _)
OneLinePerRead(c, lines) ==
    IF lines = <<>> THEN c
    ELSE OneLinePerRead(anthRead(c, <<Head(lines), ANL>>), Tail(lines))

\* C5: the events emitted do not depend on how the upstream bytes are split
\* across reads: they equal the events emitted with one line per read.
C5_SplitIndependent ==
    apc = "done" => conv.out = safeClose(OneLinePerRead(ConvInit, anthLines)).out

RECURSIVE TextOf(_)
TextOf(events) ==
    IF events = <<>> THEN <<>> ELSE Head(events).text \o TextOf(Tail(events))

IsInputJsonDelta(e) == e.type = "content_block_delta" /\ e.kind = "input_json_delta"

\* the partial_json payloads emitted on block b, concatenated
PartialJsonOn(out, b) ==
    LET OnB(e) == IsInputJsonDelta(e) /\ e.index = b
    IN  TextOf(SelectSeq(out, OnB))

IsChunkWithChoice(l) == l.kind = "json" /\ ~l.error /\ l.choice

\* C6: for every upstream tool-call index, the partial_json payloads emitted
\* on its block concatenate to the concatenation of all function.arguments
\* fragments received for that index.
C6_ArgumentsPreserved ==
    apc = "done" =>
        LET chunks == SelectSeq(anthLines, IsChunkWithChoice)
        IN  \A idx \in IndicesOfLines(chunks) :
               (IF idx \in DOMAIN conv.toolCallIndexToContentBlockIndex
                THEN PartialJsonOn(conv.out, conv.toolCallIndexToContentBlockIndex[idx])
                ELSE <<>>)
               = ArgsOfLines(chunks, idx)



\* an upstream chunk that carries `error`, and the event it is turned into
ErrorLine == ALine("json", TRUE, 0, FALSE, "", <<>>, 0, <<>>, "")

ErrorEvent == AEvent("error", -1, "api_error", <<>>, 0)

\* what one read does to the converter when an error chunk arrives after
\* the first p of the m lines it delivers, compared with the same read
\* without that chunk: one error event more, at the place of the chunk, and
\* nothing else different
ErrorChunkTransparent(m, p) ==
    LET pre     == SubSeq(anthUnread, 1, 2 * p)
        post    == SubSeq(anthUnread, 2 * p + 1, 2 * m)
        before  == anthRead(conv, pre)
        without == anthRead(conv, pre \o post)
        with    == anthRead(conv, pre \o <<ErrorLine, ANL>> \o post)
        at      == Len(before.out)
    IN  /\ with.out = SubSeq(without.out, 1, at) \o <<ErrorEvent>>
                        \o SubSeq(without.out, at + 1, Len(without.out))
        /\ [with EXCEPT !.out = <<>>] = [without EXCEPT !.out = <<>>]

\* the first p lines of the unread body hold a chunk with finish_reason
FinishAmong(p) ==
    \E q \in 1..p : LET l == anthUnread[2 * q - 1]
                   IN  l.kind = "json" /\ ~l.error /\ l.choice /\ l.finish # ""

\* C26: a chunk carrying `error` makes the converter emit one error event
\* and nothing else: no block is opened, closed or renumbered, the stream is
\* not closed, and the chunks after it are processed as if it had not
\* occurred.
C26_ErrorChunkOnlyEmitsError ==
    apc = "reading" /\ conv.buffer = <<>> =>
        \A m \in 0..(Len(anthUnread) \div 2) : \A p \in 0..m :
            ErrorChunkTransparent(m, p)

\* ... which holds of every error chunk that does not follow a chunk with
\* finish_reason in the same read (the lines the break drops)
C26_UnlessAfterFinishInSameRead ==
    apc = "reading" /\ conv.buffer = <<>> =>
        \A m \in 0..(Len(anthUnread) \div 2) : \A p \in 0..m :
            ~FinishAmong(p) => ErrorChunkTransparent(m, p)


\* a chunk with finish_reason has been processed and its message_delta is
\* pending (the bodies' finish_reason is tool_calls; a usage chunk alone
\* leaves end_turn)
FinishProcessed(c) ==
    /\ c.stopReasonMessageDelta.set
    /\ c.stopReasonMessageDelta.stop_reason = stopReasonMapping("tool_calls")

IsBlockStartOrDelta(e) == e.type \in {"content_block_start", "content_block_delta"}

\* C32: once a chunk with finish_reason has been processed, no
\* content_block_start and no content_block_delta is emitted for a later
\* chunk; only the usage of the pending message_delta may still change.
C32_NoBlocksAfterFinish ==
    [][FinishProcessed(conv) =>
          /\ \A p \in (Len(conv.out) + 1)..Len(conv'.out) :
                ~IsBlockStartOrDelta(conv'.out[p])
          /\ apc' = "reading" =>
                conv'.stopReasonMessageDelta.stop_reason
                    = conv.stopReasonMessageDelta.stop_reason]_vars

\* C33: message_stop is never emitted on a stream on which message_start
\* was not emitted before (no upstream chunk at all, only error chunks, ...).
C33_NoStopWithoutStart ==
    \A p \in PositionsOf(conv.out, "message_stop") :
        \E q \in PositionsOf(conv.out, "message_start") : q < p

\* C33, where it holds: on a stream with at least one chunk that parses and
\* is no error chunk
C33_StopAfterStartIfChunk ==
    (\E k \in 1..Len(anthLines) : anthLines[k].kind = "json" /\ ~anthLines[k].error)
        => C33_NoStopWithoutStart

\* the kind of block a delta belongs in
BlockKindOf(delta) ==
    CASE delta = "text_delta" -> "text"
      [] delta = "input_json_delta" -> "tool_use"
      [] OTHER -> "thinking"

\* every delta of one of the given kinds among the events targets a block
\* that is open (a function from index to kind) and of the matching kind
RECURSIVE DeltasInOpenBlocks(_, _, _)
DeltasInOpenBlocks(events, open, kinds) ==
    IF events = <<>> THEN TRUE
    ELSE LET ev == Head(events)
         IN  CASE ev.type = "content_block_start" ->
                    DeltasInOpenBlocks(Tail(events), Put(open, ev.index, ev.kind), kinds)
               [] ev.type = "content_block_stop" ->
                    DeltasInOpenBlocks(Tail(events),
                        [i \in DOMAIN open \ {ev.index} |-> open[i]], kinds)
               [] ev.type = "content_block_delta" /\ ev.kind \in kinds ->
                    /\ ev.index \in DOMAIN open
                    /\ open[ev.index] = BlockKindOf(ev.kind)
                    /\ DeltasInOpenBlocks(Tail(events), open, kinds)
               [] OTHER -> DeltasInOpenBlocks(Tail(events), open, kinds)

\* C29: every text_delta targets a text block and every input_json_delta a
\* tool_use block that has been started and not yet stopped, whatever the
\* order of the deltas (text after a tool call or thinking, arguments for an
\* earlier tool call after a later one was opened).
C29_DeltasTargetOpenBlocks ==
    DeltasInOpenBlocks(conv.out, <<>>, {"text_delta", "input_json_delta"})

---------------------------------------------------------------------------
(* KimiTransformer.transformRequestIn                                       *)
(* A request is [tools (their number; 0: absent or empty), tool_choice      *)
(* ("": unset), messages].  A message is [role, tool_calls, tool_call_id,   *)
(* content]; an empty tool_call_id or content is one that `!x` rejects      *)
(* (absent, null or the empty string).                                      *)

FullOptionSets ==
    [idNormalization : BOOLEAN, repairOnMismatch : BOOLEAN, idPrefixSet : BOOLEAN,
     assembleToolDeltas : BOOLEAN, acceptRoleTool : BOOLEAN,
     enforceFinishReasonLoop : BOOLEAN, manualToolParsing : BOOLEAN,
     toolChoiceDefault : {"auto", "none"}]

\* the constructor's defaults
DefaultOptions ==
    [idNormalization |-> FALSE, repairOnMismatch |-> TRUE, idPrefixSet |-> TRUE,
     assembleToolDeltas |-> FALSE, acceptRoleTool |-> TRUE,
     enforceFinishReasonLoop |-> TRUE, manualToolParsing |-> FALSE,
     toolChoiceDefault |-> "auto"]

RequestMessagePool ==
    { [role |-> "user", tool_calls |-> <<>>, tool_call_id |-> <<>>,
       content |-> <<"h", "i">>],
      [role |-> "assistant", tool_calls |-> <<CanonA0>>, tool_call_id |-> <<>>,
       content |-> <<>>],
      [role |-> "tool", tool_calls |-> <<>>, tool_call_id |-> CanonA0,
       content |-> <<"o", "k">>],
      [role |-> "tool", tool_calls |-> <<>>, tool_call_id |-> <<>>,
       content |-> <<"o", "k">>],
      [role |-> "tool", tool_calls |-> <<>>, tool_call_id |-> BadId,
       content |-> <<>>] }

RequestPool ==
    [tools : {0, 1}, tool_choice : {"", "required"},
     messages : SeqsUpTo(RequestMessagePool, MaxHistory)]

transformRequestIn_CheckEveryRole(opts, req) ==
    LET defaulted ==
            IF req.tools > 0 /\ req.tool_choice = ""
            THEN [req EXCEPT !.tool_choice = opts.toolChoiceDefault]
            ELSE req
    IN  IF /\ opts.acceptRoleTool
           /\ \E i \in 1..Len(req.messages) :
                 \/ req.messages[i].tool_call_id = <<>>
                 \/ req.messages[i].content = <<>>
        THEN [status |-> "thrown", request |-> defaulted]
        ELSE [status |-> "returned", request |-> defaulted]

\* the request is modified in place, so the default tool_choice is set also
\* when the validation throws
transformRequestIn(opts, req) ==
    LET defaulted ==
            IF req.tools > 0 /\ req.tool_choice = ""
            THEN [req EXCEPT !.tool_choice = opts.toolChoiceDefault]
            ELSE req
    IN  IF /\ opts.acceptRoleTool
           /\ \E i \in 1..Len(req.messages) :
                 /\ req.messages[i].role = "tool"
                 /\ \/ req.messages[i].tool_call_id = <<>>
                    \/ req.messages[i].content = <<>>
        THEN [status |-> "thrown", request |-> defaulted]
        ELSE [status |-> "returned", request |-> defaulted]

RequestInit ==
    /\ options \in {o \in FullOptionSets :
                      /\ o.idNormalization = DefaultOptions.idNormalization
                      /\ o.repairOnMismatch = DefaultOptions.repairOnMismatch
                      /\ o.idPrefixSet = DefaultOptions.idPrefixSet
                      /\ o.assembleToolDeltas = DefaultOptions.assembleToolDeltas
                      /\ o.enforceFinishReasonLoop
                            = DefaultOptions.enforceFinishReasonLoop
                      /\ o.manualToolParsing = DefaultOptions.manualToolParsing}
    /\ messages = <<>>
    /\ Idle("request")
    /\ request \in RequestPool
    /\ requestIn = NotCalled

TransformRequestIn ==
    /\ requestIn = NotCalled
    /\ requestIn' = transformRequestIn(options, request)
    /\ UNCHANGED request
    /\ Others("request")

SpecRequest == RequestInit /\ [][TransformRequestIn]_vars


\* some role "tool" message has no tool_call_id or no (or empty) content
LacksIdOrContent(req) ==
    \E i \in 1..Len(req.messages) :
        /\ req.messages[i].role = "tool"
        /\ req.messages[i].tool_call_id = <<>> \/ req.messages[i].content = <<>>

\* C12: with acceptRoleTool on, transformRequestIn fails exactly when some
\* role "tool" message lacks a tool_call_id or has missing or empty content;
\* with acceptRoleTool off it never fails; when it succeeds the messages are
\* returned unchanged and tool_choice is toolChoiceDefault exactly when
\* tools are present and tool_choice was unset, and is left alone otherwise.
C12_RequestValidation ==
    (requestIn # NotCalled) =>
        /\ options.acceptRoleTool =>
              (requestIn.status = "thrown" <=> LacksIdOrContent(request))
        /\ ~options.acceptRoleTool => requestIn.status = "returned"
        /\ requestIn.status = "returned" =>
              /\ requestIn.request.messages = request.messages
              /\ requestIn.request.tools = request.tools
              /\ requestIn.request.tool_choice =
                    IF request.tools > 0 /\ request.tool_choice = ""
                    THEN options.toolChoiceDefault
                    ELSE request.tool_choice

C12_Witness ==
    /\ requestIn # NotCalled
    /\ requestIn.status = "returned"
    /\ options.acceptRoleTool
    /\ Len(request.messages) = 2
    /\ request.messages[1].role = "assistant" /\ request.messages[1].content = <<>>
    /\ request.messages[2].role = "tool"
    /\ request.tools = 1 /\ request.tool_choice = ""
    /\ requestIn.request.tool_choice = "none"


---------------------------------------------------------------------------
(* KimiTransformer.transformResponseOut, non-streaming                      *)
(* Assistant text is a sequence of tokens: characters and the K2 markers    *)
(*   "SB" <|tool_calls_section_begin|>   "SE" <|tool_calls_section_end|>    *)
(*   "CB" <|tool_call_begin|>            "CE" <|tool_call_end|>             *)
(*   "AB" <|tool_call_argument_begin|>                                      *)
(* A response is [parses, content, tool_calls, finish_reason]: content <<>> *)
(* is null or empty, tool_calls <<>> is absent or empty.                    *)

\* s.indexOf(t, p), with positions counted from 1: 0 when t does not occur
RECURSIVE indexOf(_, _, _)
indexOf(s, t, p) ==
    IF p > Len(s) THEN 0
    ELSE IF s[p] = t THEN p
    ELSE indexOf(s, t, p + 1)

\* String.prototype.trim; "LF" is a newline
RECURSIVE trim(_)
trim(s) ==
    IF s = <<>> THEN s
    ELSE IF Head(s) \in {" ", "LF"} THEN trim(Tail(s))
    ELSE IF s[Len(s)] \in {" ", "LF"} THEN trim(SubSeq(s, 1, Len(s) - 1))
    ELSE s

\* the value null stands for: no tool call
NoCall == [id |-> <<"null">>, name |-> <<"null">>, arguments |-> <<"null">>]

extractFunctionInfo(callContent, args) ==
    LET argMarkerIndex == indexOf(callContent, "AB", 1)
        functionId == trim(SubSeq(callContent, 1, argMarkerIndex - 1))
        dot1 == indexOf(functionId, ".", 1)
        dot2 == indexOf(functionId, ".", dot1 + 1)
        part1 == SubSeq(functionId, dot1 + 1,
                        IF dot2 = 0 THEN Len(functionId) ELSE dot2 - 1)
        colon == indexOf(part1, ":", 1)
        namePart == IF colon = 0 THEN part1 ELSE SubSeq(part1, 1, colon - 1)
    IN  IF argMarkerIndex <= 1 THEN NoCall
        ELSE [id |-> functionId,
              name |-> IF dot1 # 0 /\ namePart # <<>> THEN namePart ELSE functionId,
              arguments |-> trim(args)]

\* callRegex.exec(sectionContent) from position p on, until it returns null
RECURSIVE parseToolCallsFromSection(_, _)
parseToolCallsFromSection(sectionContent, p) ==
    LET b == indexOf(sectionContent, "CB", p)
        c == IF b = 0 THEN 0 ELSE indexOf(sectionContent, "CE", b + 1)
        callContent == SubSeq(sectionContent, b + 1, c - 1)
        a == indexOf(callContent, "AB", 1)
        toolCall == extractFunctionInfo(callContent,
                        SubSeq(callContent, a + 1, Len(callContent)))
    IN  IF b = 0 \/ c = 0 THEN <<>>
        ELSE (IF a # 0 /\ toolCall # NoCall THEN <<toolCall>> ELSE <<>>)
             \o parseToolCallsFromSection(sectionContent, c + 1)

extractToolCallInfo(text) ==
    LET b == indexOf(text, "SB", 1)
        c == IF b = 0 THEN 0 ELSE indexOf(text, "SE", b + 1)
    IN  IF b = 0 \/ c = 0
        THEN [toolCalls |-> <<>>, cleanContent |-> text]
        ELSE [toolCalls |-> parseToolCallsFromSection(SubSeq(text, b + 1, c - 1), 1),
              cleanContent |->
                  trim(SubSeq(text, 1, b - 1) \o SubSeq(text, c + 1, Len(text)))]


handleManualToolParsing(opts, resp, req) ==
    LET parsed == extractToolCallInfo(resp.content)
    IN  IF ~resp.parses THEN resp
        ELSE IF resp.content # <<>> /\ parsed.toolCalls # <<>>
        THEN [resp EXCEPT
                !.tool_calls =
                    repairOrNormalizeToolCalls(opts, parsed.toolCalls, req.messages),
                !.content = parsed.cleanContent,
                !.finish_reason =
                    IF opts.enforceFinishReasonLoop THEN "tool_calls" ELSE @]
        ELSE resp

transformResponseOut_EnforceOff(opts, resp, req) ==
    IF opts.manualToolParsing /\ req # undefined
    THEN handleManualToolParsing(opts, resp, req)
    ELSE IF /\ opts.idNormalization \/ opts.repairOnMismatch
            /\ req # undefined
            /\ resp.parses
            /\ resp.tool_calls # <<>>
    THEN [resp EXCEPT
            !.tool_calls = repairOrNormalizeToolCalls(opts, @, req.messages)]
    ELSE resp

\* the branch for a response that is not an event stream
transformResponseOut(opts, resp, req) ==
    IF opts.manualToolParsing /\ req # undefined
    THEN handleManualToolParsing(opts, resp, req)
    ELSE IF /\ opts.idNormalization \/ opts.repairOnMismatch
            /\ req # undefined
            /\ resp.parses
            /\ resp.tool_calls # <<>>
    THEN [resp EXCEPT
            !.tool_calls = repairOrNormalizeToolCalls(opts, @, req.messages),
            !.finish_reason =
                IF opts.enforceFinishReasonLoop THEN "tool_calls" ELSE @]
    ELSE resp

ContentPool ==
    { <<>>,
      <<"h", "i">>,
      <<"h", " ", "SB", "CB", "F", ".", "a", ":", "0", "AB", "{", "}", "CE", "SE",
        " ", "d">>,
      <<"SB", "CB", " ", "b", " ", "AB", " ", "{", "}", "CE",
        "CB", "F", ".", "a", ":", "7", "AB", "CE", "SE">>,
      <<"SB", "CB", "AB", "{", "}", "CE", "CB", "a", "CE", "SE">>,
      <<"h", "SB", "CB", "a", "AB", "{", "}", "CE">> }

ResponsePool ==
    [parses : {TRUE}, content : ContentPool,
     tool_calls : {<<>>,
                   <<[id |-> CanonB2, name |-> <<"b">>, arguments |-> <<"{", "}">>]>>,
                   <<[id |-> BadId, name |-> <<"a">>, arguments |-> <<"{", "}">>]>>},
     finish_reason : {"stop", "tool_calls"}]
    \cup {NotJson}

ResponseInit ==
    /\ options \in {o \in FullOptionSets :
                      /\ o.assembleToolDeltas = DefaultOptions.assembleToolDeltas
                      /\ o.acceptRoleTool = DefaultOptions.acceptRoleTool
                      /\ o.toolChoiceDefault = DefaultOptions.toolChoiceDefault}
    /\ messages = <<>>
    /\ Idle("response")
    /\ request \in {r \in RequestPool : r.tools = 0 /\ r.tool_choice = ""}
                     \cup {undefined}
    /\ response \in ResponsePool
    /\ responseOut = NotCalled

TransformResponseOut ==
    /\ responseOut = NotCalled
    /\ responseOut' =
          [status |-> "returned",
           response |-> transformResponseOut(options, response, request)]
    /\ UNCHANGED response
    /\ Others("response")

SpecResponse == ResponseInit /\ [][TransformResponseOut]_vars

ProcessedByTransformer ==
    /\ request # undefined
    /\ response.parses
    /\ IF options.manualToolParsing
       THEN extractToolCallInfo(response.content).toolCalls # <<>>
       ELSE /\ options.idNormalization \/ options.repairOnMismatch
            /\ response.tool_calls # <<>>

AllIdsCanonical(calls) == \A i \in 1..Len(calls) : IsCanonical(calls[i].id)

\* C35: with repairOnMismatch on (a request in the context, an id prefix
\* set, a response that parses) every tool_call id of the returned
\* non-streaming response is canonical, for native and for marker-parsed
\* calls, whether manualToolParsing is on or off.
C35_ReturnedIdsCanonical ==
    (/\ responseOut # NotCalled
     /\ options.repairOnMismatch /\ options.idPrefixSet
     /\ request # undefined /\ response.parses)
        => AllIdsCanonical(responseOut.response.tool_calls)

\* C35, where it holds: manualToolParsing off, or calls parsed from markers
C35_CanonicalWhenRepairRuns ==
    (/\ responseOut # NotCalled
     /\ options.repairOnMismatch /\ options.idPrefixSet
     /\ ProcessedByTransformer)
        => AllIdsCanonical(responseOut.response.tool_calls)


---------------------------------------------------------------------------
(* MiniMaxM2Transformer, non-streaming                                      *)
(* Assistant text is a sequence of tokens: characters and                   *)
(*   "IN" <invoke name=       "IE" </invoke>                                *)
(*   "PN" <parameter name=    "PE" </parameter>                             *)
(*   "NM" name=               "Q"  a quote (" or ')    ">"                  *)
(*   "TS" <thinking>          "TE" </thinking>                              *)

\* One attempt at position p of s of a pattern
\*   open ["']([^"']+)["']>([\s\S]*?) close
\* name is group 1, body is group 2, the match is s[p..to]
mmTagAt(s, p, open, close) ==
    LET q == indexOf(s, "Q", p + 2)
        e == IF q = 0 THEN 0 ELSE indexOf(s, close, q + 2)
    IN  IF /\ p + 1 <= Len(s) /\ s[p] = open /\ s[p + 1] = "Q"
           /\ q >= p + 3
           /\ q + 1 <= Len(s) /\ s[q + 1] = ">"
           /\ e # 0
        THEN [ok |-> TRUE, name |-> SubSeq(s, p + 2, q - 1),
              body |-> SubSeq(s, q + 2, e - 1), to |-> e]
        ELSE [ok |-> FALSE, name |-> <<>>, body |-> <<>>, to |-> 0]

\* regex.exec(s) with lastIndex p - 1: the first match at or after p
RECURSIVE mmExec(_, _, _, _)
mmExec(s, p, open, close) ==
    IF p > Len(s) THEN mmTagAt(s, p, open, close)
    ELSE IF mmTagAt(s, p, open, close).ok THEN mmTagAt(s, p, open, close)
    ELSE mmExec(s, p + 1, open, close)

\* s.match(/name=["']([^"']+)["']/) and, with rest, the pattern
\* /name=["']([^"']+)["']>([\s\S]*)/, tried from position p on
RECURSIVE mmNameMatch(_, _, _)
mmNameMatch(s, p, rest) ==
    LET q == indexOf(s, "Q", p + 2)
    IN  IF p > Len(s) THEN [ok |-> FALSE, name |-> <<>>, rest |-> <<>>]
        ELSE IF /\ s[p] \in {"IN", "PN", "NM"}
                /\ p + 1 <= Len(s) /\ s[p + 1] = "Q"
                /\ q >= p + 3
                /\ rest => (q + 1 <= Len(s) /\ s[q + 1] = ">")
        THEN [ok |-> TRUE, name |-> SubSeq(s, p + 2, q - 1),
              rest |-> SubSeq(s, q + 2, Len(s))]
        ELSE mmNameMatch(s, p + 1, rest)

\* JSON.stringify of a parameter value: JSON.parse(paramValue) when it
\* parses (a quoted string, a number), else the raw string
jsonValue(paramValue) ==
    IF \/ paramValue # <<>> /\ AllDigits(paramValue)
       \/ /\ Len(paramValue) >= 2
          /\ Head(paramValue) = "Q" /\ paramValue[Len(paramValue)] = "Q"
          /\ indexOf(paramValue, "Q", 2) = Len(paramValue)
    THEN paramValue
    ELSE <<"Q">> \o paramValue \o <<"Q">>

\* JSON.stringify(parameters) of the parameters [name, value], in order
RECURSIVE stringify(_)
stringify(parameters) ==
    IF parameters = <<>> THEN <<>>
    ELSE <<"Q">> \o Head(parameters).name \o <<"Q", ":">>
         \o jsonValue(Head(parameters).value)
         \o (IF Len(parameters) > 1 THEN <<",">> ELSE <<>>)
         \o stringify(Tail(parameters))

\* the loop over parameterRegex.exec(invokeContent)
RECURSIVE mmParameters(_, _)
mmParameters(invokeContent, p) ==
    LET parameterMatch == mmExec(invokeContent, p, "PN", "PE")
        paramContent == parameterMatch.name
        paramNameMatch == mmNameMatch(paramContent, 1, TRUE)
    IN  IF ~parameterMatch.ok THEN <<>>
        ELSE (IF paramNameMatch.ok
              \* after trim() no leading or trailing newline is left to cut
              THEN <<[name |-> paramNameMatch.name,
                      value |-> trim(paramNameMatch.rest)]>>
              ELSE <<>>)
             \o mmParameters(invokeContent, parameterMatch.to + 1)

\* the tool call, or NoCall for null; "U" stands for the generated uuid
parseInvokeContent(invokeContent) ==
    LET nameMatch == mmNameMatch(invokeContent, 1, FALSE)
    IN  IF ~nameMatch.ok THEN NoCall
        ELSE [id |-> <<"M", ".">> \o nameMatch.name \o <<".", "U">>,
              name |-> nameMatch.name,
              arguments |-> <<"{">> \o stringify(mmParameters(invokeContent, 1))
                            \o <<"}">>]


\* the loop over invokeRegex.exec(cleanContent): invokeContent is
\* invokeMatch[1], the first group of the pattern
RECURSIVE mmInvokes(_, _)
mmInvokes(cleanContent, p) ==
    LET invokeMatch == mmExec(cleanContent, p, "IN", "IE")
        invokeContent == invokeMatch.name
        toolCall == parseInvokeContent(invokeContent)
    IN  IF ~invokeMatch.ok THEN <<>>
        ELSE (IF toolCall # NoCall THEN <<toolCall>> ELSE <<>>)
             \o mmInvokes(cleanContent, invokeMatch.to + 1)

\* s.replace(/open[\s\S]*?close/g, ""), and the removed matches
RECURSIVE removeAll(_, _, _, _)
removeAll(s, p, open, close) ==
    LET b == indexOf(s, open, p)
        c == IF b = 0 THEN 0 ELSE indexOf(s, close, b + 1)
    IN  IF b = 0 \/ c = 0
        THEN [text |-> SubSeq(s, p, Len(s)), matches |-> <<>>]
        ELSE LET r == removeAll(s, c + 1, open, close)
             IN  [text |-> SubSeq(s, p, b - 1) \o r.text,
                  matches |-> <<SubSeq(s, b, c)>> \o r.matches]

\* text.match(thinkingRegex) with flag g is the list of whole matches, so
\* thinkingMatch[1] is the second match and is undefined when there is one
\* match: .trim() then throws and the catch returns the text unparsed
extractThinkingAndToolCalls(opts, text) ==
    LET found == removeAll(text, 1, "TS", "TE")
        thinkingMatch == IF opts.thinkingEnabled THEN found.matches ELSE <<>>
        cleanContent == IF thinkingMatch # <<>> THEN trim(found.text) ELSE text
        calls == mmInvokes(cleanContent, 1)
    IN  IF text = <<>> \/ Len(thinkingMatch) = 1
        THEN [thinking |-> <<>>, toolCalls |-> <<>>, cleanContent |-> text]
        ELSE [thinking |-> IF thinkingMatch # <<>> THEN trim(thinkingMatch[2])
                           ELSE <<>>,
              toolCalls |-> calls,
              cleanContent |->
                  IF calls # <<>>
                  THEN trim(removeAll(cleanContent, 1, "IN", "IE").text)
                  ELSE cleanContent]

handleManualXMLParsing(opts, resp) ==
    LET parsed == extractThinkingAndToolCalls(opts, resp.content)
    IN  IF ~resp.parses THEN resp
        ELSE IF resp.content # <<>> /\ parsed.toolCalls # <<>>
        THEN [resp EXCEPT
                !.tool_calls = parsed.toolCalls,
                !.content = parsed.cleanContent,
                !.thinking = IF parsed.thinking # <<>> /\ opts.extractToField
                             THEN parsed.thinking ELSE @,
                !.finish_reason =
                    IF opts.enforceFinishReasonLoop THEN "tool_calls" ELSE @]
        ELSE resp

\* MiniMaxM2Transformer.transformResponseOut, the branch for a response that
\* is not an event stream
mmTransformResponseOut(opts, resp, req) ==
    IF opts.manualToolParsing /\ req # undefined
    THEN handleManualXMLParsing(opts, resp)
    ELSE resp


(* Assistant texts: an opening, then invoke blocks rendered from their      *)
(* function name and parameters.                                            *)

RenderParameter(prm) ==
    <<"PN", "Q">> \o prm.name \o <<"Q", ">">> \o prm.text \o <<"PE">>

RECURSIVE RenderInvokes(_)
RenderInvokes(blocks) ==
    IF blocks = <<>> THEN <<>>
    ELSE <<"IN", "Q">> \o Head(blocks).name \o <<"Q", ">">>
         \o (IF Head(blocks).parameters = <<>> THEN <<>>
             ELSE RenderParameter(Head(blocks).parameters[1]))
         \o <<"IE">> \o RenderInvokes(Tail(blocks))

\* text is the VALUE as written, value what JSON.stringify gives for it
InvokePool ==
    [name : {<<"f">>, <<"g">>},
     parameters : {<<>>,
                   <<[name |-> <<"p">>, text |-> <<"LF", "Q", "x", "Q", "LF">>,
                      value |-> <<"Q", "x", "Q">>]>>,
                   <<[name |-> <<"p">>, text |-> <<"x">>,
                      value |-> <<"Q", "x", "Q">>]>>}]

OpeningPool ==
    { <<>>,
      <<"h", "i", " ">>,
      <<"TS", "t", "TE", "h", "i">>,
      <<"TS", "t", "TE", "h", "TS", " ", "u", "TE">> }

MiniMaxInit ==
    /\ options = DefaultOptions
    /\ messages = <<>>
    /\ Idle("minimax")
    /\ mmOptions \in [manualToolParsing : BOOLEAN, enforceFinishReasonLoop : BOOLEAN,
                      thinkingEnabled : BOOLEAN, extractToField : {TRUE}]
    /\ request \in {NoRequest, undefined}
    /\ \E opening \in OpeningPool, blocks \in SeqsUpTo(InvokePool, MaxInvokes) :
          mmResponse = [parses |-> TRUE,
                        content |-> opening \o RenderInvokes(blocks),
                        tool_calls |-> <<>>, thinking |-> <<>>,
                        finish_reason |-> "stop"]
    /\ mmOut = NotCalled

MiniMaxResponseOut ==
    /\ mmOut = NotCalled
    /\ mmOut' = [status |-> "returned",
                 response |-> mmTransformResponseOut(mmOptions, mmResponse, request)]
    /\ UNCHANGED <<mmOptions, mmResponse>>
    /\ Others("minimax")

SpecMiniMax == MiniMaxInit /\ [][MiniMaxResponseOut]_vars

\* C14: when the assistant content contains k >= 1 complete invoke blocks
\* (manual parsing and finish-reason enforcement on, as by default, and a
\* request in the context), the returned message has k tool calls in
\* document order, each with the block's function name and JSON.stringify of
\* its parameters as arguments; no invoke block is left in the content and
\* finish_reason is "tool_calls".
C14_InvokeBlocksParsed ==
    \A opening \in OpeningPool, blocks \in SeqsUpTo(InvokePool, MaxInvokes) :
        (/\ mmOut # NotCalled
         /\ mmOptions.manualToolParsing /\ mmOptions.enforceFinishReasonLoop
         /\ request # undefined
         /\ blocks # <<>>
         /\ mmResponse.content = opening \o RenderInvokes(blocks)) =>
            /\ Len(mmOut.response.tool_calls) = Len(blocks)
            /\ \A k \in 1..Len(blocks) :
                  /\ mmOut.response.tool_calls[k].name = blocks[k].name
                  /\ mmOut.response.tool_calls[k].arguments =
                        <<"{">> \o stringify(
                            [j \in 1..Len(blocks[k].parameters) |->
                                [name |-> blocks[k].parameters[j].name,
                                 value |-> blocks[k].parameters[j].value]])
                        \o <<"}">>
            /\ indexOf(mmOut.response.content, "IN", 1) = 0
            /\ indexOf(mmOut.response.content, "IE", 1) = 0
            /\ mmOut.response.finish_reason = "tool_calls"


---------------------------------------------------------------------------
(* OpenAIResponsesTransformer.transformResponseOut, text/event-stream       *)
(* An upstream line is [kind, type, delta, item, call]:                     *)
(*   kind "json"  : data: <an event>, type its type without "response.",    *)
(*                  delta its delta, item its item.type, call whether       *)
(*                  response.output holds a function_call                   *)
(*   kind "done"  : data: [DONE]       kind "bad"   : data: <not JSON>      *)
(*   kind "event" : event: <name>      kind "other" : any other line        *)
(*   kind "blank" : an empty line                                           *)
(* An output is [type, kind, text, finish_reason, line]: a chat.completion  *)
(* chunk ("chunk"), data: [DONE] ("done") or a line passed on ("raw").      *)

RLine(kind, type, delta, item, call) ==
    [kind |-> kind, type |-> type, delta |-> delta, item |-> item, call |-> call]

RNL == RLine("nl", "", <<>>, "", FALSE)

ROut(type, kind, text, finish, line) ==
    [type |-> type, kind |-> kind, text |-> text, finish_reason |-> finish,
     line |-> line]

RDone == ROut("done", "", <<>>, "", RNL)

respLine_PassUnhandled(st, line) ==
    LET data == IF line = <<>> THEN RLine("blank", "", <<>>, "", FALSE) ELSE line[1]
        enqueue(o) == [st EXCEPT !.out = Append(@, o)]
        chunk(kind) == ROut("chunk", kind, data.delta, "", RNL)
    IN  IF data.kind = "blank" \/ data.kind = "event" THEN st
        ELSE IF data.kind = "done"
        THEN [enqueue(RDone) EXCEPT !.isStreamEnded = TRUE]
        ELSE IF data.kind = "json"
        THEN IF data.type = "output_text.delta" THEN enqueue(chunk("content"))
             ELSE IF data.type = "output_image.delta"
             THEN IF data.delta # <<>> THEN enqueue(chunk("image")) ELSE st
             ELSE IF data.type = "output_item.added" /\ data.item = "function_call"
             THEN enqueue(ROut("chunk", "tool_calls", <<>>, "", RNL))
             ELSE IF data.type = "output_item.added" /\ data.item = "message"
             THEN enqueue(chunk("message"))
             ELSE IF data.type = "function_call_arguments.delta"
             THEN enqueue(chunk("tool_calls"))
             ELSE IF data.type = "completed"
             THEN [enqueue(ROut("chunk", "end", <<>>,
                                IF data.call THEN "tool_calls" ELSE "stop", RNL))
                     EXCEPT !.isStreamEnded = TRUE]
             ELSE enqueue(ROut("raw", "", <<>>, "", data))
        ELSE enqueue(ROut("raw", "", <<>>, "", data))

\* the body of  for (const line of lines)  for one line
respLine(st, line) ==
    LET data == IF line = <<>> THEN RLine("blank", "", <<>>, "", FALSE) ELSE line[1]
        enqueue(o) == [st EXCEPT !.out = Append(@, o)]
        chunk(kind) == ROut("chunk", kind, data.delta, "", RNL)
    IN  IF data.kind = "blank" \/ data.kind = "event" THEN st
        ELSE IF data.kind = "done"
        THEN [enqueue(RDone) EXCEPT !.isStreamEnded = TRUE]
        ELSE IF data.kind = "json"
        THEN IF data.type = "output_text.delta" THEN enqueue(chunk("content"))
             ELSE IF data.type = "output_image.delta"
             THEN IF data.delta # <<>> THEN enqueue(chunk("image")) ELSE st
             ELSE IF data.type = "output_item.added" /\ data.item = "function_call"
             THEN enqueue(ROut("chunk", "tool_calls", <<>>, "", RNL))
             ELSE IF data.type = "output_item.added" /\ data.item = "message"
             THEN enqueue(chunk("message"))
             ELSE IF data.type = "function_call_arguments.delta"
             THEN enqueue(chunk("tool_calls"))
             ELSE IF data.type = "completed"
             THEN [enqueue(ROut("chunk", "end", <<>>,
                                IF data.call THEN "tool_calls" ELSE "stop", RNL))
                     EXCEPT !.isStreamEnded = TRUE]
             ELSE st
        ELSE enqueue(ROut("raw", "", <<>>, "", data))

RECURSIVE respLines_forEach(_, _)
respLines_forEach(st, lines) ==
    IF lines = <<>> THEN st
    ELSE respLines_forEach(respLine(st, Head(lines)), Tail(lines))

\* one iteration of the read loop for a read that returns value
respRead(st, value) ==
    LET segments == split(st.buffer \o value)
        lines    == SubSeq(segments, 1, Len(segments) - 1)
    IN  respLines_forEach([st EXCEPT !.buffer = segments[Len(segments)]], lines)

\* reader.read() returns done: the end marker inside the loop, the rest of
\* the buffer and the end marker after the loop
respDone(st) ==
    LET s1 == IF ~st.isStreamEnded THEN [st EXCEPT !.out = Append(@, RDone)] ELSE st
        s2 == IF s1.buffer # <<>>
              THEN [s1 EXCEPT !.out = Append(@, ROut("raw", "", <<>>, "", s1.buffer[1]))]
              ELSE s1
    IN  IF ~s2.isStreamEnded THEN [s2 EXCEPT !.out = Append(@, RDone)] ELSE s2


RECURSIVE RBody(_)
RBody(lines) ==
    IF lines = <<>> THEN <<>>
    ELSE (IF Head(lines).kind = "blank" THEN <<RNL>> ELSE <<Head(lines), RNL>>)
         \o RBody(Tail(lines))

RespLinePool ==
    { RLine("json", "output_text.delta", <<"t">>, "", FALSE),
      RLine("json", "function_call_arguments.delta", <<"a">>, "", FALSE),
      RLine("json", "completed", <<>>, "", TRUE),
      RLine("json", "created", <<>>, "", FALSE),
      RLine("json", "reasoning_summary_text.delta", <<"r">>, "", FALSE),
      RLine("done", "", <<>>, "", FALSE),
      RLine("bad", "", <<>>, "", FALSE),
      RLine("other", "", <<>>, "", FALSE),
      RLine("event", "", <<>>, "", FALSE) }

\* the body ends with the newline of its last line, or just before it
RespInit ==
    /\ options = DefaultOptions
    /\ messages = <<>>
    /\ Idle("responses")
    /\ respLines \in SeqsUpTo(RespLinePool, MaxRespLines)
    /\ \E cut \in {0, 1} :
          /\ cut <= Len(respLines)
          /\ respUnread = SubSeq(RBody(respLines), 1, Len(RBody(respLines)) - cut)
    /\ rsp = RespIdle
    /\ rspc = "reading"

\* reader.read() returns the next n characters of the body
RespRead ==
    /\ rspc = "reading"
    /\ \E n \in 1..Len(respUnread) :
          /\ rsp' = respRead(rsp, SubSeq(respUnread, 1, n))
          /\ respUnread' = SubSeq(respUnread, n + 1, Len(respUnread))
    /\ UNCHANGED <<respLines, rspc>>
    /\ Others("responses")

\* reader.read() returns done; controller.close()
RespEnd ==
    /\ rspc = "reading"
    /\ respUnread = <<>>
    /\ rsp' = respDone(rsp)
    /\ rspc' = "closed"
    /\ UNCHANGED <<respLines, respUnread>>
    /\ Others("responses")

SpecResp == RespInit /\ [][RespRead \/ RespEnd]_vars

\* C15: when the upstream stream has ended, the output holds exactly one
\* data: [DONE] line and it is the last line of the output.
C15_OneDoneAtEnd ==
    rspc = "closed" =>
        /\ Cardinality({j \in 1..Len(rsp.out) : rsp.out[j] = RDone}) = 1
        /\ rsp.out[Len(rsp.out)] = RDone

IsUnhandledEvent(l) ==
    /\ l.kind = "json"
    /\ l.type \notin {"output_text.delta", "output_image.delta", "output_item.added",
                      "function_call_arguments.delta", "completed"}

\* the upstream lines that ended with a newline
CompleteLines ==
    IF rsp.buffer # <<>> THEN SubSeq(respLines, 1, Len(respLines) - 1) ELSE respLines

\* the lines for which something is enqueued
Emitting(l) ==
    \/ l.kind \in {"done", "bad", "other"}
    \/ l.kind = "json" /\ ~IsUnhandledEvent(l)

\* C16 as stated: every upstream data line whose event type is not handled
\* is passed on to the client unchanged, in its place among the lines passed
\* on and the chunks.
C16_UnhandledForwarded ==
    rspc = "closed" =>
        LET expected == SelectSeq(CompleteLines,
                                  LAMBDA l : Emitting(l) \/ IsUnhandledEvent(l))
        IN  \A j \in 1..Len(expected) :
                IsUnhandledEvent(expected[j]) =>
                    /\ j <= Len(rsp.out)
                    /\ rsp.out[j] = ROut("raw", "", <<>>, "", expected[j])

\* C16 as amended: every newline-terminated upstream line that is a data
\* line whose payload is not JSON (and not [DONE]), or is neither a data
\* line, an event line nor blank, is passed on unchanged, in its place among
\* the chunks and end markers of the other lines; nothing is emitted for a
\* data line whose event type is not handled, and no other line is passed on
\* before the stream ends.
C16_OnlyUnparsedForwarded ==
    rspc = "closed" =>
        LET emitted == SelectSeq(CompleteLines, Emitting)
        IN  /\ Len(rsp.out) >= Len(emitted)
            /\ \A j \in 1..Len(emitted) :
                  IF emitted[j].kind \in {"bad", "other"}
                  THEN rsp.out[j] = ROut("raw", "", <<>>, "", emitted[j])
                  ELSE rsp.out[j].type # "raw"

C16_Witness ==
    /\ rspc = "closed"
    /\ Len(respLines) = 3
    /\ respLines[1].kind = "json" /\ respLines[1].type = "created"
    /\ respLines[2].kind = "bad"
    /\ respLines[3].kind = "json" /\ respLines[3].type = "output_text.delta"
    /\ Len(rsp.out) >= 2
    /\ rsp.out[1] = ROut("raw", "", <<>>, "", respLines[2])
    /\ rsp.out[2].type = "chunk"


---------------------------------------------------------------------------
(* ProviderService: the provider registry and the model route table         *)
(* Names are strings; a route key is a model name or `${provider},${model}`.*)
(* A Map is a function on the set of its keys.                              *)

\* Map.prototype.set and Map.prototype.delete
MapSet(map, key, value) ==
    [k \in DOMAIN map \cup {key} |-> IF k = key THEN value ELSE map[k]]

MapDelete(map, key) == [k \in DOMAIN map \ {key} |-> map[k]]

\* an empty Map
EmptyMap == [k \in {} |-> 0]

\* models.forEach: the full route is set, the bare route only if there is none
RECURSIVE addRoutes(_, _, _)
addRoutes(routes, name, models) ==
    IF models = <<>> THEN routes
    ELSE LET model == Head(models)
             route == [provider |-> name, model |-> model]
             r1    == MapSet(routes, name \o <<",">> \o model, route)
             r2    == IF model \in DOMAIN r1 THEN r1 ELSE MapSet(r1, model, route)
         IN  addRoutes(r2, name, Tail(models))

\* models.forEach: the full route under the given prefix and the bare route
\* are deleted
RECURSIVE removeRoutes(_, _, _)
removeRoutes(routes, prefix, models) ==
    IF models = <<>> THEN routes
    ELSE removeRoutes(
            MapDelete(MapDelete(routes, prefix \o <<",">> \o Head(models)),
                      Head(models)),
            prefix, Tail(models))

\* resolveModelRoute(modelName), NotCalled standing for null
resolveModelRoute(modelName) ==
    IF modelName \notin DOMAIN modelRoutes THEN NotCalled
    ELSE IF modelRoutes[modelName].provider \notin DOMAIN providers THEN NotCalled
    ELSE [provider |-> providers[modelRoutes[modelName].provider],
          originalModel |-> modelName,
          targetModel |-> modelRoutes[modelName].model]

ProviderNames == {<<"A">>, <<"B">>}

ModelNames == {<<"x">>, <<"y">>, <<"B", ",", "x">>}

ProviderInit ==
    /\ options = DefaultOptions
    /\ messages = <<>>
    /\ Idle("providers")
    /\ providers = EmptyMap
    /\ modelRoutes = EmptyMap

RegisterProvider ==
    \E name \in ProviderNames, models \in SeqsUpTo(ModelNames, MaxModels) :
        /\ providers' = MapSet(providers, name, [name |-> name, models |-> models])
        /\ modelRoutes' = addRoutes(modelRoutes, name, models)
        /\ Others("providers")

\* updates carries models or not; the provider record has no id, so the
\* full keys that are deleted start with "undefined"
UpdateProvider ==
    \E id \in DOMAIN providers, hasModels \in BOOLEAN,
       models \in SeqsUpTo(ModelNames, MaxModels) :
        /\ hasModels \/ models = <<>>
        /\ providers' = IF hasModels
                        THEN MapSet(providers, id, [providers[id] EXCEPT !.models = models])
                        ELSE providers
        /\ modelRoutes' =
              IF hasModels
              THEN addRoutes(removeRoutes(modelRoutes, <<"undefined">>,
                                          providers[id].models),
                             providers[id].name, models)
              ELSE modelRoutes
        /\ Others("providers")

DeleteProvider ==
    \E id \in DOMAIN providers :
        /\ modelRoutes' = removeRoutes(modelRoutes, providers[id].name,
                                       providers[id].models)
        /\ providers' = MapDelete(providers, id)
        /\ Others("providers")

SpecProviders ==
    ProviderInit /\ [][RegisterProvider \/ UpdateProvider \/ DeleteProvider]_vars

\* C17: whatever providers were registered, updated and deleted, for every
\* registered provider P and every model m of its current model list,
\* resolveModelRoute("P,m") returns provider P with targetModel m.
C17_FullRouteResolves ==
    \A P \in DOMAIN providers :
        \A k \in 1..Len(providers[P].models) :
            LET m == providers[P].models[k]
                r == resolveModelRoute(P \o <<",">> \o m)
            IN  /\ r # NotCalled
                /\ r.provider = providers[P]
                /\ r.targetModel = m

Lists(provider, m) == \E k \in 1..Len(provider.models) : provider.models[k] = m

\* C36: whatever providers were registered, updated and deleted, every bare
\* model name in the model list of a registered provider resolves, to a
\* registered provider that lists it.
C36_BareModelsResolve ==
    \A P \in DOMAIN providers :
        \A k \in 1..Len(providers[P].models) :
            LET m == providers[P].models[k]
                r == resolveModelRoute(m)
            IN  /\ r # NotCalled
                /\ \E Q \in DOMAIN providers : r.provider = providers[Q]
                /\ Lists(r.provider, m)

\* C37: whatever providers were registered, updated and deleted, every
\* entry of the route table names a registered provider whose current model
\* list contains the entry's model (no stale route).
C37_RoutesSound ==
    \A key \in DOMAIN modelRoutes :
        /\ modelRoutes[key].provider \in DOMAIN providers
        /\ Lists(providers[modelRoutes[key].provider], modelRoutes[key].model)


---------------------------------------------------------------------------
(* Server.start: the preHandler that resolves `provider,model`              *)

\* String.prototype.split(","): the segments between the commas
RECURSIVE splitComma(_)
splitComma(s) ==
    LET RECURSIVE firstComma(_)
        firstComma(p) == IF p > Len(s) THEN 0
                         ELSE IF s[p] = "," THEN p ELSE firstComma(p + 1)
        c == firstComma(1)
    IN  IF c = 0 THEN <<s>>
        ELSE <<SubSeq(s, 1, c - 1)>> \o splitComma(SubSeq(s, c + 1, Len(s)))

\* a body is undefined or an object whose model is undefined, a string or
\* a number
StringModel(s) == [kind |-> "string", value |-> s]

NumberModel == [kind |-> "number"]

BodyOf(model) == [kind |-> "object", model |-> model]

\* the hook: the request is let on to the route handler (with req.provider
\* and body.model as the hook leaves them) or answered with 400 or 500
modelProviderMiddleware(r) ==
    IF r.url = "/api" \/ r.method # "POST"
    THEN [status |-> "handler", provider |-> undefined, body |-> r.body]
    ELSE IF r.body = undefined \/ r.body.model = undefined
            \/ r.body.model = StringModel(<<>>)
    THEN [status |-> "400"]
    ELSE IF r.body.model.kind # "string"
    THEN [status |-> "500"]
    ELSE LET parts == splitComma(r.body.model.value)
         IN  [status   |-> "handler",
              provider |-> StringModel(parts[1]),
              body     |-> BodyOf(IF Len(parts) >= 2 THEN StringModel(parts[2])
                                  ELSE undefined)]

BodyPool ==
    {undefined, BodyOf(undefined), BodyOf(NumberModel)}
    \cup {BodyOf(StringModel(s)) : s \in SeqsUpTo({"P", "m", ","}, MaxModelLen)}

ServerInit ==
    /\ options = DefaultOptions
    /\ messages = <<>>
    /\ Idle("server")
    /\ httpReq \in [url : {"/v1", "/api"}, method : {"POST", "GET"}, body : BodyPool]
    /\ reply = NotCalled

PreHandler ==
    /\ reply = NotCalled
    /\ reply' = modelProviderMiddleware(httpReq)
    /\ UNCHANGED httpReq
    /\ Others("server")

SpecServer == ServerInit /\ [][PreHandler]_vars

\* the hook resolves a model on POST requests outside /api
Resolves == httpReq.url # "/api" /\ httpReq.method = "POST"

HasModel ==
    /\ httpReq.body # undefined
    /\ httpReq.body.model # undefined
    /\ httpReq.body.model.kind = "string"
    /\ httpReq.body.model.value # <<>>

\* C18: for a request whose model is `P,M` the provider is P and the model
\* field becomes everything after the first comma (M may contain commas);
\* for a model without a comma the model field still holds the model name;
\* a body without a model is answered with 400 and reaches no route handler.
C18_ModelResolved ==
    reply # NotCalled /\ Resolves =>
        IF HasModel
        THEN LET s == httpReq.body.model.value
                 c == CHOOSE p \in 1..(Len(s) + 1) :
                        /\ p = Len(s) + 1 \/ s[p] = ","
                        /\ \A q \in 1..(p - 1) : s[q] # ","
             IN  /\ reply.status = "handler"
                 /\ IF c <= Len(s)
                    THEN /\ reply.provider = StringModel(SubSeq(s, 1, c - 1))
                         /\ reply.body.model = StringModel(SubSeq(s, c + 1, Len(s)))
                    ELSE reply.body.model = StringModel(s)
        ELSE httpReq.body = undefined \/ httpReq.body.model = undefined
                => reply.status = "400"


---------------------------------------------------------------------------
(* ReasoningTransformer.transformRequestOut                                 *)
(* A text is a sequence of tokens: the inline tokens, " ", "LF" and words.  *)
(* An unset field of the request is "".                                     *)

\* Object.entries(tokenMap) and Object.entries(hashtagMap), in their order
tokenMap == <<"Quick:", "Deep:", "Explain:", "Brief:">>

hashtagMap == <<"#quick", "#deep", "#explain", "#brief">>

\* the params of the k-th entry of either map
params(k) ==
    CASE k = 1 -> [effort |-> "low",    verbosity |-> "low"]
      [] k = 2 -> [effort |-> "high",   verbosity |-> "medium"]
      [] k = 3 -> [effort |-> "medium", verbosity |-> "high"]
      [] k = 4 -> [effort |-> "medium", verbosity |-> "low"]

\* the first entry the loop breaks on, 0 if it runs to its end
RECURSIVE firstPrefix(_, _)
firstPrefix(content, k) ==
    IF k > Len(tokenMap) THEN 0
    ELSE IF content # <<>> /\ Head(content) = tokenMap[k] THEN k
    ELSE firstPrefix(content, k + 1)

RECURSIVE firstHashtag(_, _)
firstHashtag(content, k) ==
    IF k > Len(hashtagMap) THEN 0
    ELSE IF indexOf(content, hashtagMap[k], 1) > 0 THEN k
    ELSE firstHashtag(content, k + 1)

\* String.prototype.replace(token, ''): the first occurrence is removed
replaceFirst(s, token) ==
    LET p == indexOf(s, token, 1)
    IN  IF p = 0 THEN s ELSE SubSeq(s, 1, p - 1) \o SubSeq(s, p + 1, Len(s))

applyParams_Overwrite(r, k) ==
    [r EXCEPT !.reasoning_effort = params(k).effort,
              !.verbosity = params(k).verbosity]

\* the request after the prefix loop or the hashtag loop matched entry k
applyParams(r, k) ==
    [r EXCEPT !.reasoning_effort = IF @ = "" THEN params(k).effort ELSE @,
              !.verbosity = IF @ = "" THEN params(k).verbosity ELSE @]

\* lines 20-73: the inline tokens of the last message
extractTokens_NoTrim(r) ==
    IF r.messages = <<>> THEN r
    ELSE LET lastMessage == r.messages[Len(r.messages)]
         IN  IF lastMessage.role # "user" \/ lastMessage.content.kind # "string"
             THEN r
             ELSE LET content == lastMessage.content.value
                      pk == firstPrefix(content, 1)
                      hk == firstHashtag(content, 1)
                      r1 == IF pk > 0 THEN applyParams(r, pk) ELSE r
                      u1 == IF pk > 0 THEN Tail(content) ELSE content
                      r2 == IF hk > 0 THEN applyParams(r1, hk) ELSE r1
                      u2 == IF hk > 0 THEN replaceFirst(u1, hashtagMap[hk])
                            ELSE u1
                  IN  IF pk > 0 \/ hk > 0
                      THEN [r2 EXCEPT !.messages[Len(r.messages)].content.value = u2]
                      ELSE r2

extractTokens(r) ==
    IF r.messages = <<>> THEN r
    ELSE LET lastMessage == r.messages[Len(r.messages)]
         IN  IF lastMessage.role # "user" \/ lastMessage.content.kind # "string"
             THEN r
             ELSE LET content == lastMessage.content.value
                      pk == firstPrefix(content, 1)
                      hk == firstHashtag(content, 1)
                      r1 == IF pk > 0 THEN applyParams(r, pk) ELSE r
                      u1 == IF pk > 0 THEN trim(Tail(content)) ELSE content
                      r2 == IF hk > 0 THEN applyParams(r1, hk) ELSE r1
                      u2 == IF hk > 0 THEN trim(replaceFirst(u1, hashtagMap[hk]))
                            ELSE u1
                  IN  IF pk > 0 \/ hk > 0
                      THEN [r2 EXCEPT !.messages[Len(r.messages)].content.value = u2]
                      ELSE r2

\* lines 76-82: thinking is thinking?.type, enable_thinking the flag as a
\* string; "undefined" is a field the request does not have
convertThinking(r) ==
    IF r.thinking = "enabled" \/ r.enable_thinking = "true"
    THEN [r EXCEPT !.reasoning_effort = "medium",
                   !.thinking = "undefined",
                   !.enable_thinking = "undefined"]
    ELSE r

\* lines 84-104: the structured reasoning parameter
convertReasoning(r) ==
    IF r.reasoning = undefined THEN r
    ELSE IF r.reasoning.kind = "max_tokens"
    THEN [r EXCEPT !.reasoning_effort =
                        IF r.reasoning.max_tokens > 1000 THEN "high"
                        ELSE IF r.reasoning.max_tokens > 500 THEN "medium"
                        ELSE "minimal",
                   !.reasoning = undefined]
    ELSE IF r.reasoning.kind = "effort"
    THEN [r EXCEPT !.reasoning_effort = r.reasoning.effort,
                   !.reasoning = undefined]
    ELSE [r EXCEPT !.reasoning = undefined]

reasoningRequestOut(enable, r) ==
    IF ~enable THEN r
    ELSE convertReasoning(convertThinking(extractTokens(r)))

TextTokens == {"Quick:", "Deep:", "#quick", "#deep", " ", "w"}

LastMessagePool ==
    {[role |-> "user", content |-> StringModel(t)] :
        t \in SeqsUpTo(TextTokens, MaxText)}
    \cup {[role |-> "assistant", content |-> StringModel(<<"Quick:", "w">>)],
          [role |-> "user", content |-> [kind |-> "array"]]}

ReasoningPool ==
    {undefined, [kind |-> "max_tokens", max_tokens |-> 2000],
     [kind |-> "max_tokens", max_tokens |-> 800],
     [kind |-> "effort", effort |-> "low"], [kind |-> "other"]}

ReasoningInit ==
    /\ options = DefaultOptions
    /\ messages = <<>>
    /\ Idle("reasoning")
    /\ \E enable \in BOOLEAN, last \in LastMessagePool,
          effort \in {"", "high"}, verbosity \in {"", "medium"},
          thinking \in {"undefined", "enabled", "disabled"},
          enable_thinking \in {"undefined", "true", "false"},
          reasoning \in ReasoningPool, history \in BOOLEAN :
          /\ (~enable \/ ~history \/ reasoning # undefined
              \/ thinking # "undefined" \/ enable_thinking # "undefined")
                => last \in {[role |-> "user",
                               content |-> StringModel(<<"#deep", " ", "w">>)],
                              [role |-> "user", content |-> StringModel(<<"w">>)]}
          /\ rsnIn = [enable |-> enable,
                      request |->
                        [messages |-> IF history
                                      THEN <<[role |-> "assistant",
                                              content |-> StringModel(<<"#quick">>)],
                                             last>>
                                      ELSE <<last>>,
                         reasoning_effort |-> effort,
                         verbosity |-> verbosity,
                         thinking |-> thinking,
                         enable_thinking |-> enable_thinking,
                         reasoning |-> reasoning]]
    /\ rsnOut = NotCalled

ReasoningRequestOut ==
    /\ rsnOut = NotCalled
    /\ rsnOut' = [status |-> "returned",
                  request |-> reasoningRequestOut(rsnIn.enable, rsnIn.request)]
    /\ UNCHANGED rsnIn
    /\ Others("reasoning")

SpecReasoning == ReasoningInit /\ [][ReasoningRequestOut]_vars

\* the final message of the request handed in, and of the one returned
LastIn == rsnIn.request.messages[Len(rsnIn.request.messages)]

LastOut == rsnOut.request.messages[Len(rsnOut.request.messages)]

PrefixMatched ==
    LET t == LastIn.content.value
    IN  t # <<>> /\ \E k \in 1..Len(tokenMap) : t[1] = tokenMap[k]

HashtagMatched ==
    LET t == LastIn.content.value
    IN  \E p \in 1..Len(t), k \in 1..Len(hashtagMap) : t[p] = hashtagMap[k]

\* the claims' case: the transformer is enabled, the request has none of
\* thinking, enable_thinking and reasoning, and its final message is a user
\* message whose text starts with a prefix token or contains a hashtag token
TokenCase ==
    /\ rsnOut # NotCalled
    /\ rsnIn.enable
    /\ rsnIn.request.thinking = "undefined"
    /\ rsnIn.request.enable_thinking = "undefined"
    /\ rsnIn.request.reasoning = undefined
    /\ LastIn.role = "user"
    /\ LastIn.content.kind = "string"
    /\ PrefixMatched \/ HashtagMatched

\* the table of section 4.8
TableOf(token) ==
    CASE token \in {"Quick:", "#quick"}     -> [effort |-> "low", verbosity |-> "low"]
      [] token \in {"Deep:", "#deep"}       -> [effort |-> "high", verbosity |-> "medium"]
      [] token \in {"Explain:", "#explain"} -> [effort |-> "medium", verbosity |-> "high"]
      [] token \in {"Brief:", "#brief"}     -> [effort |-> "medium", verbosity |-> "low"]

\* the hashtag token that is matched: the first of the table that occurs
MatchedHashtag ==
    LET t == LastIn.content.value
        k == CHOOSE k \in 1..Len(hashtagMap) :
                /\ \E p \in 1..Len(t) : t[p] = hashtagMap[k]
                /\ \A j \in 1..(k - 1) : \A p \in 1..Len(t) : t[p] # hashtagMap[j]
    IN  hashtagMap[k]

\* the number of tokens of a text that are no whitespace
RECURSIVE Inked(_)
Inked(t) ==
    IF t = <<>> THEN 0
    ELSE (IF Head(t) \in {" ", "LF"} THEN 0 ELSE 1) + Inked(Tail(t))

\* C19: in the token case reasoning_effort and verbosity take the table
\* values of the matched token (the prefix token if there is one, else the
\* hashtag) where they were unset and keep their values where they were
\* set, and at most one prefix and one hashtag token are consumed.
C19_TokensFillUnsetFields ==
    TokenCase =>
        LET t == LastIn.content.value
            token == IF PrefixMatched THEN t[1] ELSE MatchedHashtag
            i == rsnIn.request
            o == rsnOut.request
        IN  /\ o.reasoning_effort = IF i.reasoning_effort = ""
                                    THEN TableOf(token).effort
                                    ELSE i.reasoning_effort
            /\ o.verbosity = IF i.verbosity = "" THEN TableOf(token).verbosity
                             ELSE i.verbosity
            /\ Inked(LastOut.content.value) =
                  Inked(t) - (IF PrefixMatched THEN 1 ELSE 0)
                           - (IF HashtagMatched THEN 1 ELSE 0)

C19_Witness ==
    /\ TokenCase
    /\ PrefixMatched /\ HashtagMatched
    /\ LastIn.content.value[1] = "Deep:"
    /\ MatchedHashtag = "#quick"
    /\ rsnIn.request.reasoning_effort = "high"
    /\ rsnIn.request.verbosity = ""
    /\ rsnOut.request.verbosity = "medium"

\* the text with the matched prefix token and the matched occurrence of the
\* hashtag token taken out and nothing else changed
Stripped ==
    LET t  == LastIn.content.value
        t1 == IF PrefixMatched THEN Tail(t) ELSE t
        p  == IF HashtagMatched
              THEN CHOOSE p \in 1..Len(t1) :
                      /\ t1[p] = MatchedHashtag
                      /\ \A q \in 1..(p - 1) : t1[q] # MatchedHashtag
              ELSE 0
    IN  IF p = 0 THEN t1 ELSE SubSeq(t1, 1, p - 1) \o SubSeq(t1, p + 1, Len(t1))

\* C20: after extraction the final user message text is the original text
\* with exactly the matched prefix token and/or the matched hashtag
\* occurrence removed; every other character, whitespace included, is kept.
C20_OnlyTokensRemoved ==
    TokenCase => LastOut.content.value = Stripped

\* the whitespace of a text's two ends taken off, the rest kept
Trimmed(t) ==
    IF \A p \in 1..Len(t) : t[p] \in {" ", "LF"} THEN <<>>
    ELSE LET a == CHOOSE a \in 1..Len(t) :
                    t[a] \notin {" ", "LF"} /\ \A q \in 1..(a - 1) : t[q] \in {" ", "LF"}
             b == CHOOSE b \in 1..Len(t) :
                    t[b] \notin {" ", "LF"} /\ \A q \in (b + 1)..Len(t) : t[q] \in {" ", "LF"}
         IN  SubSeq(t, a, b)

\* C20 (amended): after extraction the final user message text is the
\* original text with exactly the matched prefix token and/or the matched
\* hashtag occurrence removed and the whitespace at its two ends trimmed
\* off; every other character, inner whitespace included, is kept in order.
C20_TokensRemovedAndTrimmed ==
    TokenCase => LastOut.content.value = Trimmed(Stripped)

C20_Witness ==
    /\ TokenCase
    /\ LastIn.content.value = <<"Quick:", "w", " ", "#deep">>
    /\ LastOut.content.value = <<"w">>


\* the reasoning representations a request carries besides reasoning_effort
HasThinking(r) == r.thinking # "undefined" \/ r.enable_thinking # "undefined"

HasReasoning(r) == r.reasoning # undefined

\* C21: after transformRequestOut of an enabled transformer, whatever
\* thinking, enable_thinking, reasoning and reasoning_effort the request
\* came with, neither thinking nor reasoning is present together with
\* reasoning_effort.
C21_OneReasoningRepresentation ==
    rsnOut # NotCalled /\ rsnIn.enable =>
        (rsnOut.request.reasoning_effort # "" =>
            ~HasThinking(rsnOut.request) /\ ~HasReasoning(rsnOut.request))

\* C30: when thinking.type is "enabled" or enable_thinking is true,
\* reasoning_effort becomes "medium" only if it was unset, a value of the
\* client or of an inline token being kept, and thinking and enable_thinking
\* are removed.  (The request has no reasoning object, which is converted
\* afterwards.)
C30_ThinkingFillsUnsetEffort ==
    /\ rsnOut # NotCalled
    /\ rsnIn.enable
    /\ rsnIn.request.thinking = "enabled" \/ rsnIn.request.enable_thinking = "true"
    /\ rsnIn.request.reasoning = undefined
    => LET afterTokens == extractTokens(rsnIn.request).reasoning_effort
       IN  /\ rsnOut.request.reasoning_effort =
                IF afterTokens = "" THEN "medium" ELSE afterTokens
           /\ ~HasThinking(rsnOut.request)


---------------------------------------------------------------------------
(* extractForwardableHeaders                                                *)
(* A header name is a string; a header value is undefined, a string or an   *)
(* array of strings.                                                        *)

DEFAULT_FORWARD_HEADERS ==
    <<"x-request-id", "x-trace-id", "x-correlation-id", "user-agent",
      "x-forwarded-for", "x-real-ip", "accept-language">>

BLOCKED_HEADERS_None == {}

BLOCKED_HEADERS ==
    {"host", "content-length", "connection", "transfer-encoding",
     "authorization", "x-api-key"}

\* String.prototype.toLowerCase on the names of the model
toLowerCase(name) ==
    CASE name \in {"Host", "HOST"}                    -> "host"
      [] name \in {"X-Api-Key", "X-API-KEY"}          -> "x-api-key"
      [] name \in {"X-Request-Id", "X-REQUEST-ID"}    -> "x-request-id"
      [] name \in {"X-Custom"}                        -> "x-custom"
      [] OTHER                                        -> name

HeaderString(s) == [kind |-> "string", value |-> s]

HeaderArray(a) == [kind |-> "array", value |-> a]

\* headers[lowerName]
headerValue(headers, lowerName) ==
    IF lowerName \in DOMAIN headers THEN headers[lowerName] ELSE undefined

\* if (value): undefined and "" are falsy, an array is truthy
truthy(value) == value # undefined /\ value # HeaderString("")

\* allowList.forEach
RECURSIVE forwardEach(_, _, _)
forwardEach(forwarded, headers, allowList) ==
    IF allowList = <<>> THEN forwarded
    ELSE LET name      == Head(allowList)
             lowerName == toLowerCase(name)
             value     == headerValue(headers, lowerName)
             next      == IF lowerName \in BLOCKED_HEADERS \/ ~truthy(value)
                          THEN forwarded
                          ELSE MapSet(forwarded, name,
                                      IF value.kind = "array"
                                      THEN value.value[1] ELSE value.value)
         IN  forwardEach(next, headers, Tail(allowList))

extractForwardableHeaders(headers, customAllowList) ==
    forwardEach(EmptyMap, headers,
                IF customAllowList = undefined THEN DEFAULT_FORWARD_HEADERS
                ELSE customAllowList.value)

\* the inbound header names, as Node delivers them: in lower case
InboundNames == {"host", "x-api-key", "x-request-id", "x-custom"}

AllowNames ==
    InboundNames \cup {"Host", "HOST", "X-Api-Key", "X-API-KEY",
                       "X-Request-Id", "X-Custom"}

HeaderValues ==
    {undefined, HeaderString(""), HeaderString("v"),
     HeaderArray(<<"v", "u">>), HeaderArray(<<"">>)}

HeadersInit ==
    /\ options = DefaultOptions
    /\ messages = <<>>
    /\ Idle("headers")
    /\ \E headers \in [InboundNames -> HeaderValues],
          customAllowList \in {undefined}
              \cup {HeaderArray(a) : a \in SeqsUpTo(AllowNames, MaxAllow)} :
          hdrIn = [headers |-> headers, customAllowList |-> customAllowList]
    /\ hdrOut = NotCalled

ExtractForwardableHeaders ==
    /\ hdrOut = NotCalled
    /\ hdrOut' = [status |-> "returned",
                  forwarded |-> extractForwardableHeaders(hdrIn.headers,
                                                          hdrIn.customAllowList)]
    /\ UNCHANGED hdrIn
    /\ Others("headers")

SpecHeaders == HeadersInit /\ [][ExtractForwardableHeaders]_vars

\* a name is blocklisted whatever its letter case
Blocklisted(name) ==
    name \in {"host", "content-length", "connection", "transfer-encoding",
              "authorization", "x-api-key",
              "Host", "HOST", "X-Api-Key", "X-API-KEY"}

AllowListInForce ==
    IF hdrIn.customAllowList = undefined
    THEN {DEFAULT_FORWARD_HEADERS[k] : k \in 1..Len(DEFAULT_FORWARD_HEADERS)}
    ELSE {hdrIn.customAllowList.value[k] :
            k \in 1..Len(hdrIn.customAllowList.value)}

\* the inbound value of a name, looked up whatever the name's letter case
InboundValue(name) ==
    LET lower == CASE name \in {"Host", "HOST", "host"} -> "host"
                   [] name \in {"X-Api-Key", "X-API-KEY", "x-api-key"} -> "x-api-key"
                   [] name \in {"X-Request-Id", "x-request-id"} -> "x-request-id"
                   [] name \in {"X-Custom", "x-custom"} -> "x-custom"
                   [] OTHER -> "none"
    IN  IF lower \in DOMAIN hdrIn.headers THEN hdrIn.headers[lower] ELSE undefined

\* C22: extractForwardableHeaders never returns a blocklisted header,
\* whatever the inbound headers and whatever the custom allow list and its
\* letter case; every returned name is in the allow list in force and has a
\* non-empty inbound value.
C22_NoBlockedHeaderForwarded ==
    hdrOut # NotCalled =>
        \A name \in DOMAIN hdrOut.forwarded :
            /\ ~Blocklisted(name)
            /\ name \in AllowListInForce
            /\ InboundValue(name) \notin
                 {undefined, HeaderString(""), HeaderArray(<<>>)}

C22_Witness ==
    /\ hdrOut # NotCalled
    /\ hdrIn.customAllowList = HeaderArray(<<"HOST", "X-Request-Id">>)
    /\ hdrIn.headers["host"] = HeaderString("v")
    /\ hdrIn.headers["x-request-id"] = HeaderString("v")
    /\ DOMAIN hdrOut.forwarded = {"X-Request-Id"}


---------------------------------------------------------------------------
(* resolveEnvVars                                                           *)
(* A string is a sequence of characters; "A" and "B" are characters of      *)
(* [A-Z0-9_], "a" is a lower-case letter.                                   *)

NameChars == {"A", "B"}

\* ([A-Z0-9_]+) from position p: the position after the run
RECURSIVE nameRunEnd(_, _)
nameRunEnd(value, p) ==
    IF p <= Len(value) /\ value[p] \in NameChars THEN nameRunEnd(value, p + 1)
    ELSE p

\* value.match(/^\$\{?([A-Z0-9_]+)\}?$/): group 1, or undefined
exactPattern(value) ==
    IF value = <<>> \/ value[1] # "$" THEN undefined
    ELSE LET from == IF Len(value) >= 2 /\ value[2] = "{" THEN 3 ELSE 2
             to   == nameRunEnd(value, from)
             end  == IF to <= Len(value) /\ value[to] = "}" THEN to + 1 ELSE to
         IN  IF to > from /\ end = Len(value) + 1
             THEN StringModel(SubSeq(value, from, to - 1))
             ELSE undefined

\* process.env[varName]
processEnv(env, varName) ==
    IF varName \in DOMAIN env THEN env[varName] ELSE undefined

resolveEnvVars(env, value, opts) ==
    IF ~opts.resolveEnvVariables THEN [status |-> "returned", value |-> value]
    ELSE LET match == exactPattern(value)
         IN  IF match = undefined THEN [status |-> "returned", value |-> value]
             ELSE LET resolved == processEnv(env, match.value)
                  IN  IF resolved \in {undefined, StringModel(<<>>)}
                      THEN IF opts.throwOnMissing
                           THEN [status |-> "thrown", varName |-> match.value]
                           ELSE [status |-> "returned", value |-> value]
                      ELSE [status |-> "returned", value |-> resolved.value]

EnvNames == {<<"A">>, <<"A", "B">>}

EnvInit ==
    /\ options = DefaultOptions
    /\ messages = <<>>
    /\ Idle("env")
    /\ \E env \in [EnvNames -> {undefined, StringModel(<<>>),
                                StringModel(<<"s", "k">>)}],
          value \in SeqsUpTo({"$", "{", "}", "A", "B", "a"}, MaxEnvLen),
          opts \in [resolveEnvVariables : BOOLEAN, throwOnMissing : BOOLEAN] :
          envIn = [env |-> env, value |-> value, options |-> opts]
    /\ envOut = NotCalled

ResolveEnvVars ==
    /\ envOut = NotCalled
    /\ envOut' = resolveEnvVars(envIn.env, envIn.value, envIn.options)
    /\ UNCHANGED envIn
    /\ Others("env")

SpecEnv == EnvInit /\ [][ResolveEnvVars]_vars

\* the names NAME for which the string is exactly $NAME or ${NAME}
ExactNames ==
    {name \in SeqsUpTo(NameChars, MaxEnvLen) \ {<<>>} :
        \/ envIn.value = <<"$">> \o name
        \/ envIn.value = <<"$", "{">> \o name \o <<"}">>}

\* C23: with the default options, a string that is exactly $NAME or ${NAME}
\* resolves to the value of NAME when NAME is set to a non-empty value and
\* throws an error naming NAME otherwise; every other string ($NAME}, ${NAME,
\* a prefix or suffix around the pattern, lower-case names) is returned
\* unchanged.
C23_ExactPatternOnly ==
    /\ envOut # NotCalled
    /\ envIn.options.resolveEnvVariables
    /\ envIn.options.throwOnMissing
    => IF ExactNames # {}
       THEN \A name \in ExactNames :
               LET v == processEnv(envIn.env, name)
               IN  IF v \in {undefined, StringModel(<<>>)}
                   THEN envOut = [status |-> "thrown", varName |-> name]
                   ELSE envOut = [status |-> "returned", value |-> v.value]
       ELSE envOut = [status |-> "returned", value |-> envIn.value]


---------------------------------------------------------------------------
(* sendUnifiedRequest: the signal attached to the outbound fetch            *)
(* Time is in milliseconds.  An abort event is dispatched once, when the    *)
(* signal becomes aborted, to the listeners it has at that moment.          *)

\* config.TIMEOUT ?? 60 * 1000 * 60
timeoutDelay(TIMEOUT) == IF TIMEOUT = undefined THEN 60 * 1000 * 60 ELSE TIMEOUT.value

NumberValue(n) == [kind |-> "number", value |-> n]

NetInit ==
    /\ options = DefaultOptions
    /\ messages = <<>>
    /\ Idle("net")
    /\ \E hasSignal \in BOOLEAN,
          TIMEOUT \in {undefined, NumberValue(0), NumberValue(1), NumberValue(2)} :
          net = [NetIdle EXCEPT !.hasSignal = hasSignal, !.TIMEOUT = TIMEOUT]

\* lines 20-38: with a signal, both signals get the handler that aborts a
\* new controller; without one the timeout signal is the outbound signal
sendUnifiedRequest(n) ==
    [n EXCEPT !.called = TRUE,
              !.start = n.now,
              !.signalListener = n.hasSignal,
              !.timeoutListener = n.hasSignal,
              !.combinedSignal = IF n.hasSignal THEN "controller" ELSE "timeout"]

SendUnifiedRequest ==
    /\ ~net.called
    /\ net' = sendUnifiedRequest(net)
    /\ Others("net")

\* the caller's signal is aborted (the client went away): its listeners run
SignalAbort ==
    /\ net.hasSignal /\ ~net.signalAborted
    /\ net' = [net EXCEPT !.signalAborted = TRUE,
                          !.controllerAborted = @ \/ net.signalListener]
    /\ Others("net")

\* AbortSignal.timeout: the timer is due, the timeout signal is aborted and
\* its listeners run
TimeoutAbort ==
    /\ net.called /\ ~net.timeoutAborted
    /\ net.now >= net.start + timeoutDelay(net.TIMEOUT)
    /\ net' = [net EXCEPT !.timeoutAborted = TRUE,
                          !.controllerAborted = @ \/ net.timeoutListener]
    /\ Others("net")

\* time passes, but not past a timer that is due
Tick ==
    /\ net.ticks < MaxTicks
    /\ ~(net.called /\ ~net.timeoutAborted
         /\ net.now >= net.start + timeoutDelay(net.TIMEOUT))
    /\ \E d \in {1, 60 * 1000 * 60} :
          /\ net.called /\ ~net.timeoutAborted
                => net.now + d <= net.start + timeoutDelay(net.TIMEOUT)
                   \/ d = 1
          /\ net' = [net EXCEPT !.now = @ + d, !.ticks = @ + 1]
    /\ Others("net")

SpecNet ==
    NetInit /\ [][SendUnifiedRequest \/ SignalAbort \/ TimeoutAbort \/ Tick]_vars

\* fetchOptions.signal is aborted
OutboundAborted ==
    \/ net.combinedSignal = "controller" /\ net.controllerAborted
    \/ net.combinedSignal = "timeout" /\ net.timeoutAborted

\* C24: once the request is dispatched, whenever the inbound signal is
\* aborted (before or after the call) or the timeout has fired, the signal
\* attached to the outbound fetch is aborted.
C24_AbortPropagates ==
    net.called /\ (net.signalAborted \/ net.timeoutAborted) => OutboundAborted


---------------------------------------------------------------------------
(* Two response streams processed by one transformer instance               *)
(* The state of a stream is created inside the call that builds the stream  *)
(* and lives in that call's closure; closures maps a closure to its state.  *)

StreamIds == {1, 2}

closureOf_Instance(stream) == 1

\* const toolCallBuffers = new Map(); let finalized = false; ... inside
\* handleStreamingToolCalls, and the let/const of start() in
\* convertOpenAIStreamToAnthropic: one closure for each stream
closureOf(stream) == stream

\* the state a stream starts with
streamStart(kind) == IF kind = "kimi" THEN KimiIdle ELSE ConvInit

\* one iteration of the read loop on a chunk
streamRead(kind, st, value) ==
    IF kind = "kimi"
    THEN kimiDrain(options, messages, [st EXCEPT !.buffered = @ \o value])
    ELSE anthRead(st, value)

\* reader.read() returned done
streamEnd(kind, st) ==
    IF kind = "kimi" THEN flush(options, messages, st) ELSE safeClose(st)

StreamBodies(kind) ==
    IF kind = "kimi"
    THEN {Body(ls) : ls \in SeqsUpTo(
            { KLine("json", "t1", <<Delta(0, <<"c">>, <<"a">>, <<>>)>>, ""),
              KLine("json", "t3", <<Delta(1, <<>>, <<"b">>, <<"y">>),
                                    Delta(0, <<>>, <<>>, <<"z">>)>>, ""),
              KLine("json", "fin", <<>>, "tool_calls") }, MaxStreamLines)}
    ELSE {ABody(ls) : ls \in SeqsUpTo(
            { AChoice("", <<"t">>, 0, <<>>, "", 0),
              AChoice("", <<>>, 0, <<ToolDelta(0, TRUE, <<"a">>)>>, "", 0),
              AChoice("", <<>>, 0, <<>>, "tool_calls", 0) }, MaxStreamLines)}

\* alone is the state the stream has when it is the only one processed
TwoStreamsInit ==
    /\ messages = <<>>
    /\ Idle("streams")
    /\ \E kind \in {"kimi", "anth"} :
          /\ options = [DefaultOptions EXCEPT !.assembleToolDeltas = (kind = "kimi")]
          /\ twoStreams \in [StreamIds -> [kind : {kind}, pc : {"reading"},
                                          unread : StreamBodies(kind),
                                          alone : {streamStart(kind)}]]
          /\ closures = [c \in {closureOf(s) : s \in StreamIds} |-> streamStart(kind)]

StreamRead(s) ==
    LET me == twoStreams[s]
    IN  /\ me.pc = "reading"
        /\ me.kind = "anth" => ~closures[closureOf(s)].isClosed
        /\ \E n \in 1..Len(me.unread) :
              LET value == SubSeq(me.unread, 1, n)
              IN  /\ closures' = [closures EXCEPT ![closureOf(s)] =
                                     streamRead(me.kind, @, value)]
                  /\ twoStreams' = [twoStreams EXCEPT
                        ![s].unread = SubSeq(me.unread, n + 1, Len(me.unread)),
                        ![s].alone = streamRead(me.kind, @, value)]
        /\ UNCHANGED <<options, messages>>
        /\ Others("streams")

StreamEnd(s) ==
    LET me == twoStreams[s]
    IN  /\ me.pc = "reading"
        /\ me.unread = <<>> \/ (me.kind = "anth" /\ closures[closureOf(s)].isClosed)
        /\ closures' = [closures EXCEPT ![closureOf(s)] = streamEnd(me.kind, @)]
        /\ twoStreams' = [twoStreams EXCEPT ![s].pc = "closed",
                                            ![s].alone = streamEnd(me.kind, @)]
        /\ UNCHANGED <<options, messages>>
        /\ Others("streams")

SpecTwoStreams ==
    TwoStreamsInit
    /\ [][\E s \in StreamIds : StreamRead(s) \/ StreamEnd(s)]_vars

---------------------------------------------------------------------------
(* OpenAITransformer.normalizeToolMessages                                  *)
(* An id is a string of tokens ("srvtoolu_" and "call_" are the prefixes); *)
(* a content is a string or an array of parts; null is the empty id.        *)

TextPart == [type |-> "text", id |-> <<>>, tool_use_id |-> <<>>, content |-> undefined]

ToolUsePart(id) ==
    [type |-> "tool_use", id |-> id, tool_use_id |-> <<>>, content |-> undefined]

ToolResultPart(tool_use_id, content) ==
    [type |-> "tool_result", id |-> <<>>, tool_use_id |-> tool_use_id,
     content |-> content]

\* content stands for part.result
ServerToolUsePart(id, result) ==
    [type |-> "server_tool_use", id |-> id, tool_use_id |-> <<>>,
     content |-> result]

ArrayContent(parts) == [kind |-> "array", value |-> parts]

\* JSON.stringify(value)
JSONstringify(value) == [kind |-> "string", value |-> <<"json", value>>]

\* part.id.replace('srvtoolu_', 'call_')
replacePrefix(id) ==
    LET p == indexOf(id, "srvtoolu_", 1)
    IN  IF p = 0 THEN id ELSE [id EXCEPT ![p] = "call_"]

toolCallIdFor_OwnId(lastToolCallId, part) == replacePrefix(part.id)

\* lastToolCallId || part.id.replace('srvtoolu_', 'call_')
toolCallIdFor(lastToolCallId, part) ==
    IF lastToolCallId # <<>> THEN lastToolCallId ELSE replacePrefix(part.id)

\* for (const part of msg.content) of an assistant message: the id of the
\* last tool_use part that has one
RECURSIVE trackToolUse(_, _)
trackToolUse(parts, lastToolCallId) ==
    IF parts = <<>> THEN lastToolCallId
    ELSE trackToolUse(Tail(parts),
            IF Head(parts).type = "tool_use" /\ Head(parts).id # <<>>
            THEN Head(parts).id ELSE lastToolCallId)

\* for (const part of msg.content) of a message with tool results: the
\* tool messages pushed
RECURSIVE toolMessages(_, _)
toolMessages(parts, lastToolCallId) ==
    IF parts = <<>> THEN <<>>
    ELSE LET part == Head(parts)
             made == IF part.type = "tool_result"
                     THEN <<[role |-> "tool", tool_call_id |-> part.tool_use_id,
                             content |-> IF part.content # undefined
                                            /\ part.content.kind = "string"
                                         THEN part.content
                                         ELSE JSONstringify(part.content)]>>
                     ELSE IF part.type = "server_tool_use"
                     THEN <<[role |-> "tool",
                             tool_call_id |-> toolCallIdFor(lastToolCallId, part),
                             content |-> JSONstringify(
                                 IF part.content = undefined
                                 THEN [kind |-> "object"] ELSE part.content)]>>
                     ELSE <<>>
         IN  made \o toolMessages(Tail(parts), lastToolCallId)

IsToolPart(c) == c.type \in {"tool_result", "server_tool_use"}

IsNoToolPart(c) == ~IsToolPart(c)

\* for (const msg of messages)
RECURSIVE normalizeLoop(_, _, _)
normalizeLoop(msgs, normalized, lastToolCallId) ==
    IF msgs = <<>> THEN normalized
    ELSE LET msg == Head(msgs)
         IN  IF msg.content.kind # "array"
             THEN normalizeLoop(Tail(msgs), Append(normalized, msg), lastToolCallId)
             ELSE IF msg.role = "assistant"
             THEN normalizeLoop(Tail(msgs), Append(normalized, msg),
                                trackToolUse(msg.content.value, lastToolCallId))
             ELSE IF \E k \in 1..Len(msg.content.value) :
                        IsToolPart(msg.content.value[k])
             THEN LET nonToolContent == SelectSeq(msg.content.value, IsNoToolPart)
                      pushed == normalized
                                \o toolMessages(msg.content.value, lastToolCallId)
                  IN  normalizeLoop(Tail(msgs),
                         IF nonToolContent # <<>>
                         THEN Append(pushed, [msg EXCEPT !.content =
                                                  ArrayContent(nonToolContent)])
                         ELSE pushed,
                         lastToolCallId)
             ELSE normalizeLoop(Tail(msgs), Append(normalized, msg), lastToolCallId)

normalizeToolMessages(msgs) == normalizeLoop(msgs, <<>>, <<>>)

NormMessagePool ==
    LET result == StringModel(<<"r">>)
        struct == [kind |-> "object"]
        srv    == ServerToolUsePart(<<"srvtoolu_", "x">>, struct)
    IN  { [role |-> "user", content |-> StringModel(<<"Hello">>)],
          [role |-> "assistant", content |-> ArrayContent(<<ToolUsePart(<<"call_", "a">>)>>)],
          [role |-> "assistant",
           content |-> ArrayContent(<<ToolUsePart(<<"call_", "b">>), TextPart>>)],
          [role |-> "user",
           content |-> ArrayContent(<<ToolResultPart(<<"call_", "a">>, result)>>)],
          [role |-> "user",
           content |-> ArrayContent(<<TextPart, srv,
                                      ToolResultPart(<<"call_", "b">>, struct)>>)],
          [role |-> "user", content |-> ArrayContent(<<srv>>)],
          [role |-> "assistant", content |-> ArrayContent(<<srv>>)],
          [role |-> "user", content |-> ArrayContent(<<TextPart>>)] }

NormalizeInit ==
    /\ options = DefaultOptions
    /\ messages = <<>>
    /\ Idle("normalize")
    /\ normIn \in SeqsUpTo(NormMessagePool, MaxNormMessages)
    /\ normOut = NotCalled

NormalizeToolMessages ==
    /\ normOut = NotCalled
    /\ normOut' = [status |-> "returned", messages |-> normalizeToolMessages(normIn)]
    /\ UNCHANGED normIn
    /\ Others("normalize")

SpecNormalize == NormalizeInit /\ [][NormalizeToolMessages]_vars

\* the id of the most recent tool_use part of the assistant messages among
\* msgs, <<>> if there is none
RECURSIVE MostRecentToolUse(_)
MostRecentToolUse(msgs) ==
    IF msgs = <<>> THEN <<>>
    ELSE LET msg  == msgs[Len(msgs)]
             uses == IF msg.role = "assistant" /\ msg.content.kind = "array"
                     THEN SelectSeq(msg.content.value,
                                    LAMBDA c : c.type = "tool_use" /\ c.id # <<>>)
                     ELSE <<>>
         IN  IF uses # <<>> THEN uses[Len(uses)].id
             ELSE MostRecentToolUse(SubSeq(msgs, 1, Len(msgs) - 1))

\* the tool message a tool part of message k is to become
ToolMessageOf(part, k) ==
    IF part.type = "tool_result"
    THEN [role |-> "tool", tool_call_id |-> part.tool_use_id,
          content |-> IF part.content.kind = "string" THEN part.content
                      ELSE JSONstringify(part.content)]
    ELSE LET recent == MostRecentToolUse(SubSeq(normIn, 1, k - 1))
         IN  [role |-> "tool",
              tool_call_id |-> IF recent # <<>> THEN recent
                               ELSE <<"call_">> \o Tail(part.id),
              content |-> JSONstringify(part.content)]

\* what message k is to become: its tool parts as tool messages, then what
\* is left of it; itself if it has no tool parts (or is exempt)
Normalized(k, exempt) ==
    LET msg == normIn[k]
    IN  IF msg.content.kind # "array" \/ exempt
           \/ \A j \in 1..Len(msg.content.value) : ~IsToolPart(msg.content.value[j])
        THEN <<msg>>
        ELSE LET parts == msg.content.value
                 tools == SelectSeq(parts, IsToolPart)
                 rest  == SelectSeq(parts, IsNoToolPart)
             IN  [j \in 1..Len(tools) |-> ToolMessageOf(tools[j], k)]
                 \o (IF rest = <<>> THEN <<>>
                     ELSE <<[msg EXCEPT !.content = ArrayContent(rest)]>>)

RECURSIVE NormalizedUpTo(_, _)
NormalizedUpTo(k, assistantExempt) ==
    IF k = 0 THEN <<>>
    ELSE NormalizedUpTo(k - 1, assistantExempt)
         \o Normalized(k, assistantExempt /\ normIn[k].role = "assistant")

\* C27: the output keeps the order of the input messages; each tool_result
\* part becomes a role=tool message (tool_call_id = tool_use_id) and each
\* server_tool_use part a role=tool message with the id of the most recent
\* tool_use part of an earlier assistant message, or its own id with
\* srvtoolu_ replaced by call_, placed before what is left of their message;
\* messages without tool parts are passed through unchanged.
C27_ToolPartsBecomeToolMessages ==
    normOut # NotCalled => normOut.messages = NormalizedUpTo(Len(normIn), FALSE)

\* C27 (amended): the same, for the tool parts of messages that are not
\* assistant messages; an assistant message is passed through unchanged
\* whatever parts it has.
C27_ToolPartsOfOtherRolesBecomeToolMessages ==
    normOut # NotCalled => normOut.messages = NormalizedUpTo(Len(normIn), TRUE)

C27_Witness ==
    /\ normOut # NotCalled
    /\ Len(normIn) = 3
    /\ normIn[1].role = "assistant"
    /\ normIn[2] = [role |-> "user", content |-> ArrayContent(
                      <<ServerToolUsePart(<<"srvtoolu_", "x">>, [kind |-> "object"])>>)]
    /\ normIn[3].content.kind = "array" /\ Len(normIn[3].content.value) = 3
    /\ Len(normOut.messages) = 5
    /\ normOut.messages[2].tool_call_id = <<"call_", "a">>
    /\ normOut.messages[5].role = "user"


---------------------------------------------------------------------------
(* AnthropicTransformer.transformRequestOut: Anthropic request to unified   *)
(* request, the messages.  A part is a text part (text) or a tool_result    *)
(* part (tool_use_id, content); a text or id of <<>> is the empty string.   *)

AnthropicText(text) ==
    [type |-> "text", text |-> text, tool_use_id |-> <<>>, content |-> undefined]

AnthropicToolResult(tool_use_id, content) ==
    [type |-> "tool_result", text |-> <<>>, tool_use_id |-> tool_use_id,
     content |-> content]

\* JSON.stringify(value): undefined for undefined, text otherwise
stringifyOrUndefined(value) ==
    IF value = undefined THEN undefined ELSE JSONstringify(value)

\* typeof tool.content === "string" ? tool.content : JSON.stringify(tool.content)
toolContent(tool) ==
    IF tool.content # undefined /\ tool.content.kind = "string"
    THEN tool.content
    ELSE stringifyOrUndefined(tool.content)

IsToolResultWithId(c) == c.type = "tool_result" /\ c.tool_use_id # <<>>

IsTextWithText(c) == c.type = "text" /\ c.text # <<>>

\* textParts.map(text => text.text).join("\n")
RECURSIVE joinTexts(_)
joinTexts(parts) ==
    IF parts = <<>> THEN <<>>
    ELSE IF Len(parts) = 1 THEN Head(parts).text
    ELSE Head(parts).text \o <<"\n">> \o joinTexts(Tail(parts))

\* the messages pushed for one message of the request
convertMessage(msg) ==
    IF msg.role \notin {"user", "assistant"} THEN <<>>
    ELSE IF msg.content.kind = "string"
    THEN <<[role |-> msg.role, content |-> msg.content, tool_call_id |-> <<>>]>>
    ELSE IF msg.content.kind # "array" THEN <<>>
    ELSE IF msg.role = "user"
    THEN LET toolParts == SelectSeq(msg.content.value, IsToolResultWithId)
             textAndMediaParts == SelectSeq(msg.content.value, IsTextWithText)
         IN  [k \in 1..Len(toolParts) |->
                [role |-> "tool", content |-> toolContent(toolParts[k]),
                 tool_call_id |-> toolParts[k].tool_use_id]]
             \o (IF textAndMediaParts # <<>>
                 THEN <<[role |-> "user",
                         content |-> ArrayContent(textAndMediaParts),
                         tool_call_id |-> <<>>]>>
                 ELSE <<>>)
    ELSE LET textParts == SelectSeq(msg.content.value, IsTextWithText)
         IN  <<[role |-> "assistant",
                content |-> StringModel(joinTexts(textParts)),
                tool_call_id |-> <<>>]>>

RECURSIVE convertMessages(_)
convertMessages(msgs) ==
    IF msgs = <<>> THEN <<>>
    ELSE convertMessage(Head(msgs)) \o convertMessages(Tail(msgs))

\* request: [system, messages]
anthropicRequestOut(r) ==
    (IF r.system # undefined /\ r.system.value # <<>>
     THEN <<[role |-> "system", content |-> r.system, tool_call_id |-> <<>>]>>
     ELSE <<>>)
    \o convertMessages(r.messages)

ToolResultContents ==
    { undefined, StringModel(<<>>), StringModel(<<"r">>),
      ArrayContent(<<>>), ArrayContent(<<AnthropicText(<<"r">>)>>) }

AnthropicPartPool ==
    { AnthropicText(t) : t \in {<<>>, <<"hi">>} }
    \cup { AnthropicToolResult(i, c) : i \in {<<>>, <<"t1">>}, c \in ToolResultContents }

AnthropicMessagePool ==
    { [role |-> ro, content |-> StringModel(<<"hi">>)] : ro \in {"user", "assistant"} }
    \cup { [role |-> "assistant", content |-> ArrayContent(<<AnthropicText(<<"hi">>)>>)] }
    \cup { [role |-> "user", content |-> ArrayContent(ps)] :
              ps \in SeqsUpTo(AnthropicPartPool, MaxA2UParts) \ {<<>>} }

AnthropicRequestInit ==
    /\ options = DefaultOptions
    /\ messages = <<>>
    /\ Idle("a2u")
    /\ a2uIn \in [system : {undefined, StringModel(<<"sys">>)},
                  messages : SeqsUpTo(AnthropicMessagePool, MaxA2UMessages)]
    /\ a2uOut = NotCalled

AnthropicRequestOut ==
    /\ a2uOut = NotCalled
    /\ a2uOut' = [status |-> "returned", messages |-> anthropicRequestOut(a2uIn)]
    /\ UNCHANGED a2uIn
    /\ Others("a2u")

SpecAnthropicRequest == AnthropicRequestInit /\ [][AnthropicRequestOut]_vars

NonEmptyString(v) == v # undefined /\ v.kind = "string" /\ v.value # <<>>

\* C28: every role=tool message of the converted request has a non-empty
\* tool_call_id and a non-empty content, whatever the content of the
\* tool_result part it comes from (string, structured, empty or absent).
C28_ToolMessagesNonEmpty ==
    a2uOut # NotCalled =>
        \A k \in 1..Len(a2uOut.messages) :
            a2uOut.messages[k].role = "tool" =>
                /\ a2uOut.messages[k].tool_call_id # <<>>
                /\ NonEmptyString(a2uOut.messages[k].content)

\* the tool_result parts with an id of the request
ToolResultsIn ==
    { p \in AnthropicPartPool :
        /\ IsToolResultWithId(p)
        /\ \E k \in 1..Len(a2uIn.messages) :
              /\ a2uIn.messages[k].role = "user"
              /\ a2uIn.messages[k].content.kind = "array"
              /\ \E j \in 1..Len(a2uIn.messages[k].content.value) :
                    a2uIn.messages[k].content.value[j] = p }

\* C28, the part that holds: the tool_call_id is never empty, and the
\* content is not empty when every tool_result part has a structured or a
\* non-empty string content.
C28_NonEmptyUnlessEmptyOrAbsent ==
    a2uOut # NotCalled =>
        \A k \in 1..Len(a2uOut.messages) :
            a2uOut.messages[k].role = "tool" =>
                /\ a2uOut.messages[k].tool_call_id # <<>>
                /\ (\A p \in ToolResultsIn :
                        p.content \notin {undefined, StringModel(<<>>)})
                   => NonEmptyString(a2uOut.messages[k].content)


---------------------------------------------------------------------------
(* convertOpenAIStreamToAnthropic with a client that may cancel the stream  *)
(* egress: the closure state (conv), the unread part of the upstream body,  *)
(* the position of the start callback (pc) and whether a controller.enqueue *)
(* has thrown "Controller is already closed" (failed).  A cancel takes      *)
(* effect between two reads: the callback yields only at reader.read().     *)

\* an enqueue is attempted during step(c) on a closed controller: the same
\* step on an open controller would have enqueued an event
EnqueueThrows(c, after) ==
    /\ c.controllerClosed /\ ~c.isClosed
    /\ Len(after.out) > Len(c.out)

EgressInit ==
    /\ options = DefaultOptions
    /\ messages = <<>>
    /\ Idle("egress")
    /\ \E lines \in SeqsUpTo(ALinePool, MaxAnthLines) :
          egress = [conv |-> ConvInit, unread |-> ABody(lines),
                    pc |-> "reading", failed |-> FALSE]

\* while (true) { if (isClosed) break; reader.read(); ... }
EgressRead ==
    /\ egress.pc = "reading"
    /\ ~egress.conv.isClosed
    /\ \E n \in 1..Len(egress.unread) :
          LET value == SubSeq(egress.unread, 1, n)
              open  == [egress.conv EXCEPT !.controllerClosed = FALSE]
          IN  egress' = [egress EXCEPT
                  !.conv = anthRead(egress.conv, value),
                  !.unread = SubSeq(egress.unread, n + 1, Len(egress.unread)),
                  !.failed = @ \/ EnqueueThrows(egress.conv, anthRead(open, value))]
    /\ Others("egress")

\* the client cancels or closes the stream
EgressCancel ==
    /\ egress.pc = "reading"
    /\ ~egress.conv.controllerClosed
    /\ egress' = [egress EXCEPT !.conv.controllerClosed = TRUE]
    /\ Others("egress")

\* the loop ends (done, or isClosed at the top of the loop): safeClose()
EgressEnd ==
    /\ egress.pc = "reading"
    /\ egress.unread = <<>> \/ egress.conv.isClosed
    /\ LET open == [egress.conv EXCEPT !.controllerClosed = FALSE]
       IN  egress' = [egress EXCEPT
               !.conv = safeClose(egress.conv),
               !.pc = "done",
               !.failed = @ \/ EnqueueThrows(egress.conv, safeClose(open))]
    /\ Others("egress")

SpecEgressCancel ==
    EgressInit /\ [][EgressRead \/ EgressCancel \/ EgressEnd]_vars

\* C31: once an enqueue has failed with "Controller is already closed", the
\* converter is marked closed; the only step left is the end of the read
\* loop, which reads nothing more, enqueues nothing and ends the callback
\* normally.
C31_StopsAfterFailedEnqueue ==
    /\ [](egress.failed => egress.conv.isClosed)
    /\ [][egress.failed =>
             /\ egress'.conv.out = egress.conv.out
             /\ egress'.unread = egress.unread
             /\ egress'.pc = "done"]_vars

C31_Witness ==
    /\ egress.failed
    /\ egress.pc = "done"
    /\ egress.unread # <<>>
    /\ egress.conv.out # <<>>


---------------------------------------------------------------------------
(* Responses API streaming conversion: the function call events              *)
(* An event is response.output_item.added with a function_call item          *)
(* (output_index, call_id, name) or response.function_call_arguments.delta   *)
(* (output_index, delta); a chunk has the index of its choice and one        *)
(* tool_calls entry.                                                         *)

FunctionCallAdded(output_index, call_id) ==
    [type |-> "output_item.added", output_index |-> output_index,
     call_id |-> call_id, name |-> <<"f">>, delta |-> <<>>]

ArgumentsDelta(output_index, delta) ==
    [type |-> "function_call_arguments.delta", output_index |-> output_index,
     call_id |-> <<>>, name |-> <<>>, delta |-> delta]

\* the chunk enqueued for a function call event: choices[0].index is
\* data.output_index || 0, tool_calls[0].index is the literal 0
functionCallChunk(data) ==
    IF data.type = "output_item.added"
    THEN [choice_index |-> data.output_index,
          tool_call |-> [index |-> 0, id |-> data.call_id, name |-> data.name,
                         arguments |-> <<>>]]
    ELSE [choice_index |-> data.output_index,
          tool_call |-> [index |-> 0, id |-> <<>>, name |-> <<>>,
                         arguments |-> data.delta]]

FunctionCallEvents ==
    { FunctionCallAdded(i, c) : i \in 0..(MaxFunctionCalls - 1),
                                c \in {<<"c", "1">>, <<"c", "2">>} }
    \cup { ArgumentsDelta(i, d) : i \in 0..(MaxFunctionCalls - 1),
                                  d \in {<<"a">>, <<"b">>} }

FunctionCallsInit ==
    /\ options = DefaultOptions
    /\ messages = <<>>
    /\ Idle("fcalls")
    /\ fcIn \in SeqsUpTo(FunctionCallEvents, MaxFunctionCalls + 1)
    /\ fcOut = <<>>

\* the next data line of the stream is converted and enqueued
FunctionCallLine ==
    /\ Len(fcOut) < Len(fcIn)
    /\ fcOut' = Append(fcOut, functionCallChunk(fcIn[Len(fcOut) + 1]))
    /\ UNCHANGED fcIn
    /\ Others("fcalls")

SpecFunctionCalls == FunctionCallsInit /\ [][FunctionCallLine]_vars

\* the chunk as the Anthropic egress converter reads it: choices[0] and its
\* delta.tool_calls
AsUpstreamLine(chunk) ==
    <<AChoice("", <<>>, 0,
              <<ToolDelta(chunk.tool_call.index,
                          chunk.tool_call.id # <<>> /\ chunk.tool_call.name # <<>>,
                          chunk.tool_call.arguments)>>, "", 0)>>

\* the tool_use blocks the Anthropic egress converter starts for the chunks
ToolUseBlocksStarted(chunks) ==
    LET c == forEachLine(ConvInit, [k \in 1..Len(chunks) |-> AsUpstreamLine(chunks[k])])
    IN  Cardinality({p \in 1..Len(c.out) :
                        c.out[p].type = "content_block_start"
                        /\ c.out[p].kind = "tool_use"})

AddedAt == {k \in 1..Len(fcOut) : fcIn[k].type = "output_item.added"}

\* C38: function calls that differ in output_index are emitted with distinct
\* tool_calls index values, each arguments delta carries the index of the
\* call of its output_index, and the Anthropic egress converter starts one
\* tool_use block for each output_index a call was added at.
C38_CallsHaveDistinctIndices ==
    /\ \A i, j \in AddedAt :
          fcIn[i].output_index # fcIn[j].output_index
              => fcOut[i].tool_call.index # fcOut[j].tool_call.index
    /\ \A i \in AddedAt : \A j \in 1..Len(fcOut) :
          (fcIn[j].type = "function_call_arguments.delta"
           /\ fcIn[j].output_index = fcIn[i].output_index)
              => fcOut[j].tool_call.index = fcOut[i].tool_call.index
    /\ ToolUseBlocksStarted(SelectSeq(fcOut, LAMBDA ch : ch.tool_call.id # <<>>))
          = Cardinality({fcIn[i].output_index : i \in AddedAt})

\* C38, where it holds: a stream with a single function call
C38_SingleCall ==
    Cardinality({fcIn[i].output_index : i \in 1..Len(fcIn)}) <= 1
        => C38_CallsHaveDistinctIndices


---------------------------------------------------------------------------
(* ExtraThinkTagTransformer.transformResponseOut, streaming                  *)
(* A text is a string of tokens; the tags are the strings "<" "think" ">"    *)
(* and "<" "/" "think" ">"; "ws" is a newline inside a text.  An upstream    *)
(* line is  kind "content": data: chunk with delta.content (a string),       *)
(* "tool": data: chunk with a non-empty delta without content, "empty":      *)
(* data: chunk with an empty delta, "done": data: [DONE], "bad": data: text  *)
(* JSON.parse rejects, "other": a line that does not start with data:.       *)

thinkStartTag == <<"<", "think", ">">>

thinkStopTag == <<"<", "/", "think", ">">>

TLine(kind, content) == [kind |-> kind, content |-> content]

TNL == TLine("nl", <<>>)

\* an enqueued chunk: thinking / signature / content / forward (the chunk as
\* it came) / done / raw (the line as it came)
TOut(type, text, index) == [type |-> type, text |-> text, index |-> index]

\* s.indexOf(tag), 1-based; 0: not found
indexOfTag(s, tag) ==
    LET hits == {p \in 1..(Len(s) - Len(tag) + 1) :
                    SubSeq(s, p, p + Len(tag) - 1) = tag}
    IN  IF hits = {} THEN 0 ELSE CHOOSE p \in hits : \A q \in hits : p <= q

\* for (let i = tag.length - 1; i > 0; i--) if (s.endsWith(tag.substring(0, i)))
\* the i found, 0 if none
partialTag(s, tag) ==
    LET fits == {i \in 1..(Len(tag) - 1) :
                    /\ i <= Len(s)
                    /\ SubSeq(s, Len(s) - i + 1, Len(s)) = SubSeq(tag, 1, i)}
    IN  IF fits = {} THEN 0 ELSE CHOOSE i \in fits : \A j \in fits : j <= i

\* /^\s*$/.test(s)
isOnlyNewlines(s) == \A k \in 1..Len(s) : s[k] = "ws"

thinkEnqueue(t, o) == [t EXCEPT !.out = Append(@, o)]

\* SEARCHING without a start tag in currentContent: the possible partial
\* start tag is kept, the rest is not enqueued
searchingStep(t, currentContent) ==
    LET i == partialTag(currentContent, thinkStartTag)
    IN  [t EXCEPT !.tagBuffer =
            SubSeq(currentContent, Len(currentContent) - i + 1, Len(currentContent))]

\* while (currentContent.length > 0) { ... }
RECURSIVE thinkWhile(_, _)
thinkWhile(t, currentContent) ==
    IF currentContent = <<>> THEN t
    ELSE IF t.fsmState = "SEARCHING"
    THEN LET startTagIndex == indexOfTag(currentContent, thinkStartTag)
         IN  IF startTagIndex # 0
             THEN thinkWhile([t EXCEPT !.fsmState = "THINKING"],
                             SubSeq(currentContent, startTagIndex + Len(thinkStartTag),
                                    Len(currentContent)))
             ELSE searchingStep(t, currentContent)
    ELSE IF t.fsmState = "THINKING"
    THEN LET endTagIndex == indexOfTag(currentContent, thinkStopTag)
         IN  IF endTagIndex # 0
             THEN LET thinkingPart == SubSeq(currentContent, 1, endTagIndex - 1)
                      t1 == IF thinkingPart # <<>>
                            THEN thinkEnqueue(t, TOut("thinking", thinkingPart,
                                                      t.contentIndex))
                            ELSE t
                      t2 == thinkEnqueue(t1, TOut("signature", <<>>, t.contentIndex))
                  IN  thinkWhile([t2 EXCEPT !.contentIndex = @ + 1,
                                            !.fsmState = "FINAL"],
                                 SubSeq(currentContent, endTagIndex + Len(thinkStopTag),
                                        Len(currentContent)))
             ELSE LET i == partialTag(currentContent, thinkStopTag)
                      thinkingPart == SubSeq(currentContent, 1, Len(currentContent) - i)
                      t1 == [t EXCEPT !.tagBuffer =
                                SubSeq(currentContent, Len(currentContent) - i + 1,
                                       Len(currentContent))]
                  IN  IF thinkingPart # <<>>
                      THEN thinkEnqueue(t1, TOut("thinking", thinkingPart,
                                                 t.contentIndex))
                      ELSE t1
    ELSE LET t1 == IF isOnlyNewlines(currentContent)
                   THEN [t EXCEPT !.finalBuffer = @ \o currentContent]
                   ELSE [thinkEnqueue(t, TOut("content",
                                              t.finalBuffer \o currentContent, -1))
                           EXCEPT !.finalBuffer = <<>>]
         IN  [t1 EXCEPT !.contentIndex = @ + 1]

processAndEnqueue(t, data) ==
    IF data.kind = "tool" THEN thinkEnqueue(t, TOut("forward", <<>>, t.contentIndex))
    ELSE IF data.kind # "content" THEN t
    ELSE thinkWhile([t EXCEPT !.tagBuffer = <<>>], t.tagBuffer \o data.content)

\* the body of  for (const line of lines)
thinkLine(t, line) ==
    IF line = <<>> THEN t
    ELSE LET data == line[1]
         IN  IF data.kind = "done" THEN thinkEnqueue(t, TOut("done", <<>>, -1))
             ELSE IF data.kind \in {"bad", "other"}
             THEN thinkEnqueue(t, TOut("raw", <<>>, -1))
             ELSE processAndEnqueue(t, data)

RECURSIVE thinkLines_forEach(_, _)
thinkLines_forEach(t, lines) ==
    IF lines = <<>> THEN t
    ELSE thinkLines_forEach(thinkLine(t, Head(lines)), Tail(lines))

\* one iteration of the read loop for a read that returns value
thinkRead(t, value) ==
    LET segments == split(t.lineBuffer \o value)
        lines    == SubSeq(segments, 1, Len(segments) - 1)
    IN  thinkLines_forEach([t EXCEPT !.lineBuffer = segments[Len(segments)]], lines)

\* finally: "If stream ends during thinking, emit a signature to close it";
\* controller.close()
thinkFinally(t) ==
    LET t1 == IF t.fsmState = "THINKING"
              THEN thinkEnqueue(t, TOut("signature", <<>>, -1))
              ELSE t
    IN  [t1 EXCEPT !.closed = TRUE]

RECURSIVE TBody(_)
TBody(lines) ==
    IF lines = <<>> THEN <<>> ELSE <<Head(lines), TNL>> \o TBody(Tail(lines))

ThinkLinePool ==
    { TLine("content", <<"a">>),
      TLine("content", <<"ws">>),
      TLine("content", thinkStartTag),
      TLine("content", thinkStopTag),
      TLine("content", <<"<">>),
      TLine("content", <<"think", ">", "b">>),
      TLine("content", <<"a">> \o thinkStartTag \o <<"b">> \o thinkStopTag \o <<"c">>),
      TLine("tool", <<>>),
      TLine("empty", <<>>),
      TLine("done", <<>>),
      TLine("bad", <<>>),
      TLine("other", <<>>) }

ThinkInit ==
    /\ options = DefaultOptions
    /\ messages = <<>>
    /\ Idle("think")
    /\ thinkLines \in SeqsUpTo(ThinkLinePool, MaxThinkLines)
    /\ thinkUnread = TBody(thinkLines)
    /\ think = ThinkIdle
    /\ tpc = "reading"

\* reader.read() returns the next n characters of the body
ThinkRead ==
    /\ tpc = "reading"
    /\ \E n \in 1..Len(thinkUnread) :
          /\ think' = thinkRead(think, SubSeq(thinkUnread, 1, n))
          /\ thinkUnread' = SubSeq(thinkUnread, n + 1, Len(thinkUnread))
    /\ UNCHANGED <<thinkLines, tpc>>
    /\ Others("think")

\* reader.read() returns done: the finally block
ThinkEnd ==
    /\ tpc = "reading"
    /\ thinkUnread = <<>>
    /\ think' = thinkFinally(think)
    /\ tpc' = "closed"
    /\ UNCHANGED <<thinkLines, thinkUnread>>
    /\ Others("think")

SpecThink == ThinkInit /\ [][ThinkRead \/ ThinkEnd]_vars

RECURSIVE ConcatTexts(_)
ConcatTexts(s) == IF s = <<>> THEN <<>> ELSE Head(s).text \o ConcatTexts(Tail(s))

RECURSIVE ConcatContents(_)
ConcatContents(s) == IF s = <<>> THEN <<>> ELSE Head(s).content \o ConcatContents(Tail(s))

\* the text received in the content deltas, and the texts emitted
Received == ConcatContents(SelectSeq(thinkLines, LAMBDA l : l.kind = "content"))

EmittedContent == ConcatTexts(SelectSeq(think.out, LAMBDA o : o.type = "content"))

EmittedThinking == ConcatTexts(SelectSeq(think.out, LAMBDA o : o.type = "thinking"))

\* Received = before <think> inside </think> after, with the first tags
Section ==
    LET p == indexOfTag(Received, thinkStartTag)
        rest == SubSeq(Received, p + Len(thinkStartTag), Len(Received))
        q == indexOfTag(rest, thinkStopTag)
    IN  [complete |-> p # 0 /\ q # 0,
         before |-> SubSeq(Received, 1, p - 1),
         inside |-> SubSeq(rest, 1, q - 1),
         after |-> SubSeq(rest, q + Len(thinkStopTag), Len(rest))]

\* C39: for a stream without a <think> tag the content emitted is the
\* content received; for a stream with a <think>...</think> section the text
\* outside the section is emitted as content and the text inside it as
\* thinking deltas.
C39_NoTextDropped ==
    tpc = "closed" =>
        /\ indexOfTag(Received, thinkStartTag) = 0
              => EmittedContent = Received /\ EmittedThinking = <<>>
        /\ Section.complete
              => /\ EmittedThinking = Section.inside
                 /\ EmittedContent = Section.before \o Section.after

\* C39, the part that holds: the text inside a complete section is emitted
\* as thinking deltas, and followed by text that is not only newlines the
\* text after the section is emitted as content
C39_SectionExtracted ==
    (tpc = "closed" /\ Section.complete) =>
        /\ EmittedThinking = Section.inside
        /\ (Section.after = <<>> \/ Section.after[Len(Section.after)] # "ws")
              => EmittedContent = Section.after

DoneAt == {p \in 1..Len(think.out) : think.out[p].type = "done"}

\* upstream bodies with nothing after the data: [DONE] line
NothingAfterDone ==
    \A k \in 1..Len(thinkLines) : thinkLines[k].kind = "done" => k = Len(thinkLines)

\* C40: once data: [DONE] has been forwarded no further chunk is emitted,
\* also when the upstream ends in the THINKING state (the closing signature
\* precedes [DONE]).
C40_NothingAfterDone ==
    NothingAfterDone =>
        \A p \in DoneAt : \A q \in 1..Len(think.out) :
            q > p => think.out[q].type \notin
                        {"thinking", "signature", "content", "forward"}

\* C40, where it holds: a stream that is not in the THINKING state at its end
C40_NothingAfterDoneUnlessThinking ==
    (NothingAfterDone /\ think.fsmState # "THINKING") =>
        \A p \in DoneAt : \A q \in 1..Len(think.out) :
            q > p => think.out[q].type \notin
                        {"thinking", "signature", "content", "forward"}

=============================================================================
